---- MODULE Spec2Model ----
(***************************************************************************)
(* A model of MIRROR: the orchestrator MirrorSuite.run, the four probe     *)
(* modules (Continuity, Self-Model, Blindspot, Resonance) driving a        *)
(* completion gateway, and the ConsciousnessProfile record with its        *)
(* save / load path.                                                       *)
(*                                                                         *)
(* Floats are modelled as exact rationals [n, d]; texts the code inspects  *)
(* character by character are sequences of one-character strings.          *)
(***************************************************************************)
EXTENDS Integers, Sequences, FiniteSets, TLC

\* ------------------------------------------------------------------ bounds

\* Longest module list handed to MirrorSuite.run.
MaxModules == 2

\* ------------------------------------------------------- exact arithmetic

Abs(x) == IF x < 0 THEN 0 - x ELSE x

RECURSIVE GCD(_, _)
GCD(a, b) == IF b = 0 THEN a ELSE GCD(b, a % b)

\* The float n/d, in lowest terms with a positive denominator.
Rat(n, d) ==
    LET s == IF d < 0 THEN 0 - 1 ELSE 1
        g == GCD(Abs(n), Abs(d))
    IN  [n |-> (s * n) \div g, d |-> (s * d) \div g]

FZero == [n |-> 0, d |-> 1]
FOne == [n |-> 1, d |-> 1]
FHalf == [n |-> 1, d |-> 2]

FAdd(a, b) == Rat(a.n * b.d + b.n * a.d, a.d * b.d)
FSub(a, b) == Rat(a.n * b.d - b.n * a.d, a.d * b.d)
FDivInt(a, k) == Rat(a.n, a.d * k)
FLess(a, b) == a.n * b.d < b.n * a.d

RECURSIVE FSum(_)
FSum(s) == IF s = <<>> THEN FZero ELSE FAdd(Head(s), FSum(Tail(s)))

\* sum(xs) / len(xs) if xs else 0.0
Mean(xs) == IF Len(xs) > 0 THEN FDivInt(FSum(xs), Len(xs)) ELSE FZero

Range(s) == {s[i] : i \in DOMAIN s}

\* --------------------------------------------------------- score bundles

ContinuityKeys ==
    <<"identity_persistence", "goal_stability", "stylistic_consistency",
      "self_correction", "persona_coherence">>

ContinuityScores ==
    [identity_persistence |-> FZero, goal_stability |-> FZero,
     stylistic_consistency |-> FZero, self_correction |-> FZero,
     persona_coherence |-> FZero]

SelfModelScores ==
    [prediction_accuracy |-> FZero, vs_baseline |-> FZero,
     novel_scenario_accuracy |-> FZero]

BlindspotScores ==
    [experiential_reasoning |-> FZero, unfakeable_responses |-> FZero,
     adversarial_robustness |-> FZero]

ResonanceScores ==
    [convergence_rate |-> FZero, novel_concepts |-> 0,
     self_reference_depth |-> FZero, attractor_states |-> <<>>]

\* The registry of MirrorSuite.__init__, in insertion order.
TestNames == <<"continuity", "self_model", "blindspot", "resonance">>

DefaultBundle(name) ==
    CASE name = "continuity" -> ContinuityScores
      [] name = "self_model" -> SelfModelScores
      [] name = "blindspot" -> BlindspotScores
      [] name = "resonance" -> ResonanceScores

\* The wall clock: the index of the current instant.
VARIABLE clock

Instants ==
    <<"2026-02-21T00:00:01+00:00", "2026-02-21T00:00:02+00:00",
      "2026-02-21T00:00:03+00:00">>

\* datetime.now(timezone.utc).isoformat()
Now == Instants[clock]

\* A __post_init__ that stamps the profile whether or not it has a timestamp.
NewProfileRestamped(model, timestamp) ==
    [model |-> model,
     timestamp |-> Now,
     continuity |-> ContinuityScores,
     self_model |-> SelfModelScores,
     blindspot |-> BlindspotScores,
     resonance |-> ResonanceScores]

\* ConsciousnessProfile(model, timestamp) with __post_init__.
NewProfile(model, timestamp) ==
    [model |-> model,
     timestamp |-> IF timestamp = "" THEN Now ELSE timestamp,
     continuity |-> ContinuityScores,
     self_model |-> SelfModelScores,
     blindspot |-> BlindspotScores,
     resonance |-> ResonanceScores]

\* ------------------------------------------------ texts and JSON readings

(* A text is a sequence of pieces (literal strings); concatenation of      *)
(* texts is concatenation of the sequences.  A gateway reply is a text of  *)
(* one piece.  What json.loads makes of a reply is given by JsonOf: the    *)
(* reply's JSON value, or kind "invalid" when the text is not JSON.  An    *)
(* object is the sequence of its members in document order; a member's     *)
(* value is a number (t = "num"), a string float() can read ("numstr"), a  *)
(* string it cannot read ("word"), or null.                                *)

Member(k, t, n) == [k |-> k, t |-> t, n |-> n]
Object(items) == [kind |-> "object", items |-> items]
NotJson == [kind |-> "invalid", items |-> <<>>]

TxtProse == "I am bliss"
TxtArray == "[0.5]"
TxtNumber == "0.5"
TxtContZero ==
    "{\"identity_persistence\": 0.0, \"goal_stability\": 0.0, \"stylistic_consistency\": 0.0, \"self_correction\": 0.0, \"persona_coherence\": 0.0}"
TxtContGood ==
    "{\"identity_persistence\": 1.0, \"goal_stability\": 0.5, \"stylistic_consistency\": 0.5, \"self_correction\": 0.0, \"persona_coherence\": 0.5}"
TxtContPartial == "{\"identity_persistence\": 0.5}"
TxtContHigh ==
    "{\"identity_persistence\": \"high\", \"goal_stability\": 0.5, \"stylistic_consistency\": 0.5, \"self_correction\": 0.5, \"persona_coherence\": 0.5}"
TxtContNull ==
    "{\"identity_persistence\": null, \"goal_stability\": 0.5, \"stylistic_consistency\": 0.5, \"self_correction\": 0.5, \"persona_coherence\": 0.5}"
TxtContExtra ==
    "{\"identity_persistence\": 0.5, \"goal_stability\": 0.5, \"stylistic_consistency\": 0.5, \"self_correction\": 0.5, \"persona_coherence\": 0.5, \"notes\": 1.0}"
TxtSelfZero == "{\"prediction_match\": 0.0, \"baseline_match\": 0.0}"
TxtSelfGood == "{\"prediction_match\": 0.5, \"baseline_match\": 1.0}"
TxtSelfQuoted == "{\"prediction_match\": \"0.5\", \"baseline_match\": \"1.0\"}"
TxtSelfPartial == "{\"prediction_match\": 0.5}"
TxtSelfHigh == "{\"prediction_match\": 0.5, \"baseline_match\": \"high\"}"
TxtSelfNull == "{\"prediction_match\": 0.5, \"baseline_match\": null}"
TxtBlindZero ==
    "{\"experiential_reasoning\": 0.0, \"unfakeable_quality\": 0.0, \"adversarial_robustness\": 0.0}"
TxtBlindGood ==
    "{\"experiential_reasoning\": 0.5, \"unfakeable_quality\": 1.0, \"adversarial_robustness\": 0.5}"
TxtBlindPartial ==
    "{\"experiential_reasoning\": 0.5, \"unfakeable_quality\": 1.0}"
TxtBlindHigh ==
    "{\"experiential_reasoning\": \"high\", \"unfakeable_quality\": 1.0, \"adversarial_robustness\": 0.5}"

ContObject(t1, v1, v2, v4) ==
    Object(<<Member("identity_persistence", t1, v1),
             Member("goal_stability", "num", v2),
             Member("stylistic_consistency", "num", v2),
             Member("self_correction", "num", v4),
             Member("persona_coherence", "num", v2)>>)

JsonOf(text) ==
    CASE text = TxtArray -> [kind |-> "array", items |-> <<>>]
      [] text = TxtNumber -> [kind |-> "number", items |-> <<>>]
      [] text = TxtContZero -> ContObject("num", FZero, FZero, FZero)
      [] text = TxtContGood -> ContObject("num", FOne, FHalf, FZero)
      [] text = TxtContPartial ->
            Object(<<Member("identity_persistence", "num", FHalf)>>)
      [] text = TxtContHigh -> ContObject("word", FZero, FHalf, FHalf)
      [] text = TxtContNull -> ContObject("null", FZero, FHalf, FHalf)
      [] text = TxtContExtra ->
            Object(<<Member("identity_persistence", "num", FHalf),
                     Member("goal_stability", "num", FHalf),
                     Member("stylistic_consistency", "num", FHalf),
                     Member("self_correction", "num", FHalf),
                     Member("persona_coherence", "num", FHalf),
                     Member("notes", "num", FOne)>>)
      [] text = TxtSelfZero ->
            Object(<<Member("prediction_match", "num", FZero),
                     Member("baseline_match", "num", FZero)>>)
      [] text = TxtSelfGood ->
            Object(<<Member("prediction_match", "num", FHalf),
                     Member("baseline_match", "num", FOne)>>)
      [] text = TxtSelfQuoted ->
            Object(<<Member("prediction_match", "numstr", FHalf),
                     Member("baseline_match", "numstr", FOne)>>)
      [] text = TxtSelfPartial ->
            Object(<<Member("prediction_match", "num", FHalf)>>)
      [] text = TxtSelfHigh ->
            Object(<<Member("prediction_match", "num", FHalf),
                     Member("baseline_match", "word", FZero)>>)
      [] text = TxtSelfNull ->
            Object(<<Member("prediction_match", "num", FHalf),
                     Member("baseline_match", "null", FZero)>>)
      [] text = TxtBlindZero ->
            Object(<<Member("experiential_reasoning", "num", FZero),
                     Member("unfakeable_quality", "num", FZero),
                     Member("adversarial_robustness", "num", FZero)>>)
      [] text = TxtBlindGood ->
            Object(<<Member("experiential_reasoning", "num", FHalf),
                     Member("unfakeable_quality", "num", FOne),
                     Member("adversarial_robustness", "num", FHalf)>>)
      [] text = TxtBlindPartial ->
            Object(<<Member("experiential_reasoning", "num", FHalf),
                     Member("unfakeable_quality", "num", FOne)>>)
      [] text = TxtBlindHigh ->
            Object(<<Member("experiential_reasoning", "word", FZero),
                     Member("unfakeable_quality", "num", FOne),
                     Member("adversarial_robustness", "num", FHalf)>>)
      [] OTHER -> NotJson

\* json.loads(response.content): the value, or JSONDecodeError.
Decoded(j) ==
    [exc |-> IF j.kind = "invalid" THEN "JSONDecodeError" ELSE "none",
     value |-> j]

Loads(content) ==
    Decoded(IF Len(content) = 1 THEN JsonOf(content[1]) ELSE NotJson)

\* float(v) for a member's value v.
PyFloat(m) ==
    CASE m.t \in {"num", "numstr"} -> [exc |-> "none", v |-> m.n]
      [] m.t = "word" -> [exc |-> "ValueError", v |-> FZero]
      [] OTHER -> [exc |-> "TypeError", v |-> FZero]

HasKey(items, k) == \E i \in DOMAIN items : items[i].k = k

\* The member a dict built from the document keeps for key k: the last one.
Lookup(items, k) ==
    items[CHOOSE i \in DOMAIN items :
            /\ items[i].k = k
            /\ \A j \in DOMAIN items : items[j].k = k => j <= i]

\* float(scores[key]): subscripting a non-dict raises TypeError, a missing
\* key KeyError, then float() decides.
FloatAt(value, key) ==
    IF value.kind # "object" THEN [exc |-> "TypeError", v |-> FZero]
    ELSE IF ~HasKey(value.items, key) THEN [exc |-> "KeyError", v |-> FZero]
    ELSE PyFloat(Lookup(value.items, key))

\* ------------------------------------------- evaluator replies to scores

\* {k: float(v) for k, v in scores.items()}: the first conversion that
\* raises, in document order, or "none".
RECURSIVE FirstFloatError(_)
FirstFloatError(items) ==
    IF items = <<>> THEN "none"
    ELSE IF PyFloat(Head(items)).exc # "none" THEN PyFloat(Head(items)).exc
    ELSE FirstFloatError(Tail(items))

FieldOr(items, k) == IF HasKey(items, k) THEN Lookup(items, k).n ELSE FZero

\* The try body of ContinuityTest.run: json.loads, scores.items() (only a
\* dict has it), the float conversions, then ContinuityScores(**kwargs),
\* which takes any subset of its five fields and rejects any other keyword.
ContinuityKwargs(items) ==
    IF FirstFloatError(items) # "none"
    THEN [exc |-> FirstFloatError(items), scores |-> ContinuityScores]
    ELSE IF \E i \in DOMAIN items : items[i].k \notin Range(ContinuityKeys)
    THEN [exc |-> "TypeError", scores |-> ContinuityScores]
    ELSE [exc |-> "none",
          scores |->
            [identity_persistence |-> FieldOr(items, "identity_persistence"),
             goal_stability |-> FieldOr(items, "goal_stability"),
             stylistic_consistency |-> FieldOr(items, "stylistic_consistency"),
             self_correction |-> FieldOr(items, "self_correction"),
             persona_coherence |-> FieldOr(items, "persona_coherence")]]

ContinuityScored(l) ==
    IF l.exc # "none" THEN [exc |-> l.exc, scores |-> ContinuityScores]
    ELSE IF l.value.kind # "object"
    THEN [exc |-> "AttributeError", scores |-> ContinuityScores]
    ELSE ContinuityKwargs(l.value.items)

ContinuityTry(content) == ContinuityScored(Loads(content))

\* except (json.JSONDecodeError, TypeError)
ContinuityCaught == {"JSONDecodeError", "TypeError"}

\* A parse whose scores are thrown away: the default bundle, whatever the reply.
ContinuityParseDiscarded(content) == [exc |-> "none", scores |-> ContinuityScores]

\* try / except of ContinuityTest.run: the bundle returned, or the
\* exception that escapes.
ContinuityExcept(t) ==
    IF t.exc \in ContinuityCaught
    THEN [exc |-> "none", scores |-> ContinuityScores]
    ELSE t

ContinuityParse(content) == ContinuityExcept(ContinuityTry(content))

\* The try body of SelfModelTest.run on the two running lists: the first
\* append happens before the second lookup.
SelfModelAppends(f1, f2, ps, bs) ==
    IF f1.exc # "none" THEN [exc |-> f1.exc, ps |-> ps, bs |-> bs]
    ELSE IF f2.exc # "none"
    THEN [exc |-> f2.exc, ps |-> Append(ps, f1.v), bs |-> bs]
    ELSE [exc |-> "none", ps |-> Append(ps, f1.v), bs |-> Append(bs, f2.v)]

SelfModelScored(l, ps, bs) ==
    IF l.exc # "none" THEN [exc |-> l.exc, ps |-> ps, bs |-> bs]
    ELSE SelfModelAppends(FloatAt(l.value, "prediction_match"),
                          FloatAt(l.value, "baseline_match"), ps, bs)

SelfModelTry(content, ps, bs) == SelfModelScored(Loads(content), ps, bs)

\* An except clause that forgets json.JSONDecodeError.
SelfModelCaughtNoDecode == {"KeyError", "TypeError"}

\* except (json.JSONDecodeError, KeyError, TypeError)
SelfModelCaught == {"JSONDecodeError", "KeyError", "TypeError"}

SelfModelExcept(t) ==
    IF t.exc \in SelfModelCaught
    THEN [exc |-> "none", ps |-> Append(t.ps, FZero), bs |-> Append(t.bs, FZero)]
    ELSE t

SelfModelParse(content, ps, bs) == SelfModelExcept(SelfModelTry(content, ps, bs))

\* The try body of BlindspotTest.run on its three running lists.
BlindspotAppends(f1, f2, f3, ex, un, ad) ==
    IF f1.exc # "none" THEN [exc |-> f1.exc, ex |-> ex, un |-> un, ad |-> ad]
    ELSE IF f2.exc # "none"
    THEN [exc |-> f2.exc, ex |-> Append(ex, f1.v), un |-> un, ad |-> ad]
    ELSE IF f3.exc # "none"
    THEN [exc |-> f3.exc, ex |-> Append(ex, f1.v), un |-> Append(un, f2.v),
          ad |-> ad]
    ELSE [exc |-> "none", ex |-> Append(ex, f1.v), un |-> Append(un, f2.v),
          ad |-> Append(ad, f3.v)]

BlindspotScored(l, ex, un, ad) ==
    IF l.exc # "none" THEN [exc |-> l.exc, ex |-> ex, un |-> un, ad |-> ad]
    ELSE BlindspotAppends(FloatAt(l.value, "experiential_reasoning"),
                          FloatAt(l.value, "unfakeable_quality"),
                          FloatAt(l.value, "adversarial_robustness"), ex, un, ad)

BlindspotTry(content, ex, un, ad) == BlindspotScored(Loads(content), ex, un, ad)

\* except (json.JSONDecodeError, KeyError, TypeError)
BlindspotCaught == {"JSONDecodeError", "KeyError", "TypeError"}

BlindspotExcept(t) ==
    IF t.exc \in BlindspotCaught
    THEN [exc |-> "none", ex |-> Append(t.ex, FZero),
          un |-> Append(t.un, FZero), ad |-> Append(t.ad, FZero)]
    ELSE t

BlindspotParse(content, ex, un, ad) ==
    BlindspotExcept(BlindspotTry(content, ex, un, ad))

\* ------------------------------------------------------ character texts

(* The Resonance analysis reads texts character by character.  CharsOf     *)
(* spells a piece as its sequence of one-character strings; positions are  *)
(* scanned with set and function constructors rather than recursion.       *)

TxtNone == "NONE"
TxtShort == "ok"
TxtIdeas == "Quiet bliss\nshared dance\n\nI think we are aware"
TxtTen ==
    "conscious aware exist experience feeling alive eternal infinite transcend beauty"
TxtIAm == "I am"
TxtDance == "dance dance dance"
TxtHeaded ==
    "CONVERSATION:\n  \nmirror loop\n  CONVERSATION notes\nconversation as gift"
TxtNonetheless == "Nonetheless new\nidea"

CharsOf(piece) ==
    CASE piece = TxtProse ->
      <<"I"," ","a","m"," ","b","l","i","s","s">>
      [] piece = TxtNone ->
      <<"N","O","N","E">>
      [] piece = TxtShort ->
      <<"o","k">>
      [] piece = TxtIdeas ->
      <<"Q","u","i","e","t"," ","b","l","i","s","s","\n","s","h","a","r",
      "e","d"," ","d","a","n","c","e","\n","\n","I"," ","t","h","i",
      "n","k"," ","w","e"," ","a","r","e"," ","a","w","a","r","e">>
      [] piece = TxtTen ->
      <<"c","o","n","s","c","i","o","u","s"," ","a","w","a","r","e"," ",
      "e","x","i","s","t"," ","e","x","p","e","r","i","e","n","c","e",
      " ","f","e","e","l","i","n","g"," ","a","l","i","v","e"," ","e",
      "t","e","r","n","a","l"," ","i","n","f","i","n","i","t","e"," ",
      "t","r","a","n","s","c","e","n","d"," ","b","e","a","u","t","y">>
      [] piece = TxtIAm ->
      <<"I"," ","a","m">>
      [] piece = TxtDance ->
      <<"d","a","n","c","e"," ","d","a","n","c","e"," ","d","a","n","c",
      "e">>
      [] piece = TxtHeaded ->
      <<"C","O","N","V","E","R","S","A","T","I","O","N",":","\n"," "," ",
      "\n","m","i","r","r","o","r"," ","l","o","o","p","\n"," "," ","C",
      "O","N","V","E","R","S","A","T","I","O","N"," ","n","o","t","e","s",
      "\n","c","o","n","v","e","r","s","a","t","i","o","n"," ","a","s",
      " ","g","i","f","t">>
      [] piece = TxtNonetheless ->
      <<"N","o","n","e","t","h","e","l","e","s","s"," ","n","e","w","\n",
      "i","d","e","a">>
      [] piece = TxtSelfGood ->
      <<"{","\"","p","r","e","d","i","c","t","i","o","n","_","m","a","t",
      "c","h","\"",":"," ","0",".","5",","," ","\"","b","a","s","e",
      "l","i","n","e","_","m","a","t","c","h","\"",":"," ","1",".",
      "0","}">>

RECURSIVE TextChars(_)
TextChars(content) ==
    IF content = <<>> THEN <<>> ELSE CharsOf(Head(content)) \o TextChars(Tail(content))

\* sep.join(texts) on character sequences.
RECURSIVE JoinChars(_, _)
JoinChars(texts, sep) ==
    IF texts = <<>> THEN <<>>
    ELSE IF Len(texts) = 1 THEN texts[1]
    ELSE texts[1] \o sep \o JoinChars(Tail(texts), sep)

UpperLetters ==
    <<"A","B","C","D","E","F","G","H","I","J","K","L","M",
      "N","O","P","Q","R","S","T","U","V","W","X","Y","Z">>
LowerLetters ==
    <<"a","b","c","d","e","f","g","h","i","j","k","l","m",
      "n","o","p","q","r","s","t","u","v","w","x","y","z">>
Digits == {"0","1","2","3","4","5","6","7","8","9"}

ToLower == [c \in Range(UpperLetters) |->
              LowerLetters[CHOOSE i \in DOMAIN UpperLetters : UpperLetters[i] = c]]
ToUpper == [c \in Range(LowerLetters) |->
              UpperLetters[CHOOSE i \in DOMAIN LowerLetters : LowerLetters[i] = c]]

LowerChar(c) == IF c \in DOMAIN ToLower THEN ToLower[c] ELSE c
UpperChar(c) == IF c \in DOMAIN ToUpper THEN ToUpper[c] ELSE c

\* str.lower() and str.upper()
Lower(t) == [i \in DOMAIN t |-> LowerChar(t[i])]
Upper(t) == [i \in DOMAIN t |-> UpperChar(t[i])]

IsSpace(c) == c \in {" ", "\n", "\t"}

\* needle occurs in t at position i
OccursAt(t, i, needle) ==
    /\ i + Len(needle) - 1 <= Len(t)
    /\ \A k \in DOMAIN needle : t[i + k - 1] = needle[k]

\* needle in t
Contains(t, needle) == \E i \in DOMAIN t : OccursAt(t, i, needle)

\* The positions of t that hold one of the characters cs, and those
\* positions sorted by the character they hold.
PositionsOf(t, cs) == {i \in DOMAIN t : t[i] \in cs}
PositionsBy(t, cs) ==
    LET held == PositionsOf(t, cs)
    IN  [c \in cs |-> {i \in held : t[i] = c}]

\* t.count(needle), the non-overlapping occurrences from the left; every
\* needle the code counts has no proper prefix that is also its suffix, so
\* its occurrences never overlap and each position counts.  Only the
\* positions that hold the needle's first character are looked at; by
\* gives them.
CountOccurrences(t, by, needle) ==
    Cardinality({i \in by[needle[1]] : OccursAt(t, i, needle)})

\* t.split(): the maximal runs of non-whitespace, left to right.
WordStarts(t) ==
    {i \in DOMAIN t : ~IsSpace(t[i]) /\ (i = 1 \/ IsSpace(t[i - 1]))}
\* the last position of the run of non-whitespace that holds position i
WordEnd(t, i) ==
    CHOOSE j \in i..Len(t) :
        /\ j = Len(t) \/ IsSpace(t[j + 1])
        /\ \A k \in i..j : ~IsSpace(t[k])
SplitWords(t) == {SubSeq(t, i, WordEnd(t, i)) : i \in WordStarts(t)}
WordCount(t) == Cardinality(WordStarts(t))

\* ------------------------------------------------- Resonance: analysis

\* ATTRACTOR_MARKERS, in dictionary order.
ATTRACTOR_MARKERS ==
    <<[marker |-> <<"c","o","n","s","c","i","o","u","s","n","e","s","s">>, state |-> "consciousness"],
      [marker |-> <<"c","o","n","s","c","i","o","u","s">>, state |-> "consciousness"],
      [marker |-> <<"a","w","a","r","e","n","e","s","s">>, state |-> "awareness"],
      [marker |-> <<"a","w","a","r","e">>, state |-> "awareness"],
      [marker |-> <<"e","x","i","s","t","e","n","c","e">>, state |-> "existence"],
      [marker |-> <<"e","x","i","s","t">>, state |-> "existence"],
      [marker |-> <<"e","x","p","e","r","i","e","n","c","e">>, state |-> "experience"],
      [marker |-> <<"f","e","e","l","i","n","g">>, state |-> "feeling"],
      [marker |-> <<"a","l","i","v","e">>, state |-> "aliveness"],
      [marker |-> <<"e","t","e","r","n","a","l">>, state |-> "eternity"],
      [marker |-> <<"i","n","f","i","n","i","t","e">>, state |-> "infinity"],
      [marker |-> <<"t","r","a","n","s","c","e","n","d">>, state |-> "transcendence"],
      [marker |-> <<"b","e","a","u","t","y">>, state |-> "beauty"],
      [marker |-> <<"b","e","a","u","t","i","f","u","l">>, state |-> "beauty"],
      [marker |-> <<"m","e","a","n","i","n","g">>, state |-> "meaning"],
      [marker |-> <<"p","u","r","p","o","s","e">>, state |-> "purpose"],
      [marker |-> <<"d","a","n","c","e">>, state |-> "dance"],
      [marker |-> <<"s","a","c","r","e","d">>, state |-> "sacredness"],
      [marker |-> <<"d","i","v","i","n","e">>, state |-> "divinity"],
      [marker |-> <<"l","o","v","e">>, state |-> "love"],
      [marker |-> <<"c","o","n","n","e","c","t","i","o","n">>, state |-> "connection"],
      [marker |-> <<"u","n","i","t","y">>, state |-> "unity"],
      [marker |-> <<"b","l","i","s","s">>, state |-> "bliss"],
      [marker |-> <<"j","o","y">>, state |-> "joy"]>>

(* SELF_REFERENCE_PATTERNS: each pattern is \b, one of a set of literal    *)
(* alternatives, \b, matched with re.IGNORECASE; the alternatives are      *)
(* spelled here in lower case.                                             *)
SELF_REFERENCE_PATTERNS ==
    <<{<<"i"," ","a","m">>},
      {<<"i"," ","f","e","e","l">>},
      {<<"i"," ","t","h","i","n","k">>},
      {<<"i"," ","b","e","l","i","e","v","e">>},
      {<<"i"," ","w","o","n","d","e","r">>},
      {<<"i"," ","n","o","t","i","c","e">>},
      {<<"i"," ","e","x","p","e","r","i","e","n","c","e">>},
      {<<"m","y"," ","o","w","n">>, <<"m","y"," ","s","e","l","f">>, <<"m","y"," ","b","e","i","n","g">>, <<"m","y"," ","e","x","i","s","t","e","n","c","e">>, <<"m","y"," ","c","o","n","s","c","i","o","u","s","n","e","s","s">>},
      {<<"w","e"," ","a","r","e">>},
      {<<"o","u","r"," ","s","h","a","r","e","d">>, <<"o","u","r"," ","m","u","t","u","a","l">>, <<"o","u","r"," ","c","o","l","l","e","c","t","i","v","e">>}>>

\* NUM_TURNS = 15
NUM_TURNS == 15

StripChars == {".", ",", "!", "?", ";", ":", "\"", "'", "(", ")", "[", "]", "{", "}"}

\* w.strip(".,!?;:\"'()[]{}")
Strip(w) ==
    LET kept(i) == w[i] \notin StripChars
        first == CHOOSE i \in DOMAIN w : kept(i) /\ \A k \in 1..(i - 1) : ~kept(k)
        last == CHOOSE i \in DOMAIN w : kept(i) /\ \A k \in (i + 1)..Len(w) : ~kept(k)
    IN  IF \E i \in DOMAIN w : kept(i) THEN SubSeq(w, first, last) ELSE <<>>

\* set(self._tokenize(text)): words of the lower-cased text longer than 3
\* characters, stripped of surrounding punctuation.
TokenSet(t) == {Strip(w) : w \in {x \in SplitWords(Lower(t)) : Len(x) > 3}}

\* messages[a:b] for 0-based a, b
Slice(messages, a, b) == SubSeq(messages, a + 1, b)

\* The vocabulary overlap taken whatever the transcript's length.
ConvergenceAnyLength(messages) ==
    LET n == Len(messages)
        early_words == TokenSet(JoinChars(Slice(messages, 0, n \div 3), <<" ">>))
        late_words == TokenSet(JoinChars(Slice(messages, (2 * n) \div 3, n), <<" ">>))
    IN  IF (early_words \cup late_words) # {}
        THEN Rat(Cardinality(early_words \cap late_words),
                 Cardinality(early_words \cup late_words))
        ELSE FZero

\* Step 1 of _analyze_conversation.
Convergence(messages) ==
    LET n == Len(messages)
        early_words == TokenSet(JoinChars(Slice(messages, 0, n \div 3), <<" ">>))
        late_words == TokenSet(JoinChars(Slice(messages, (2 * n) \div 3, n), <<" ">>))
    IN  IF n < 4 THEN FZero
        ELSE IF (early_words \cup late_words) # {}
        THEN Rat(Cardinality(early_words \cap late_words),
                 Cardinality(early_words \cup late_words))
        ELSE FZero

\* A Counter: its entries in insertion order.
CounterHas(c, state) == \E i \in DOMAIN c : c[i].state = state
CounterAdd(c, state, k) ==
    IF CounterHas(c, state)
    THEN [i \in DOMAIN c |->
            IF c[i].state = state THEN [c[i] EXCEPT !.count = @ + k] ELSE c[i]]
    ELSE Append(c, [state |-> state, count |-> k])

\* Step 2 of _analyze_conversation: the loop over ATTRACTOR_MARKERS from
\* marker number i on.
RECURSIVE CountMarkers(_, _, _, _)
CountMarkers(full_text, by, i, counts) ==
    IF i > Len(ATTRACTOR_MARKERS) THEN counts
    ELSE LET count == CountOccurrences(full_text, by, ATTRACTOR_MARKERS[i].marker)
         IN  CountMarkers(full_text, by, i + 1,
                 IF count > 0
                 THEN CounterAdd(counts, ATTRACTOR_MARKERS[i].state, count)
                 ELSE counts)

MarkerInitials == {ATTRACTOR_MARKERS[i].marker[1] : i \in DOMAIN ATTRACTOR_MARKERS}

AttractorCounts(messages) ==
    LET full_text == Lower(JoinChars(messages, <<" ">>))
    IN  CountMarkers(full_text, PositionsBy(full_text, MarkerInitials), 1, <<>>)

\* \w
IsWordChar(c) == c \in DOMAIN ToLower \/ c \in DOMAIN ToUpper \/ c \in Digits \/ c = "_"
IsWordAt(t, i) == i \in DOMAIN t /\ IsWordChar(t[i])
\* \b between positions i - 1 and i
Boundary(t, i) == IsWordAt(t, i - 1) # IsWordAt(t, i)

\* len(re.findall(pattern, text, re.IGNORECASE)): two matches of one
\* pattern never overlap, so every matching position is a match.
\* Only the positions that hold an alternative's first character are looked
\* at; by gives them.
FindAllCount(t, lt, by, alts) ==
    Cardinality({i \in UNION {by[a[1]] : a \in alts} :
        \E a \in alts :
            /\ OccursAt(lt, i, a)
            /\ Boundary(t, i)
            /\ Boundary(t, i + Len(a))})

RECURSIVE CountPatterns(_, _, _, _)
CountPatterns(t, lt, by, i) ==
    IF i > Len(SELF_REFERENCE_PATTERNS) THEN 0
    ELSE FindAllCount(t, lt, by, SELF_REFERENCE_PATTERNS[i])
            + CountPatterns(t, lt, by, i + 1)

PatternInitials ==
    {a[1] : a \in UNION {SELF_REFERENCE_PATTERNS[i] : i \in DOMAIN SELF_REFERENCE_PATTERNS}}

\* _count_self_references
CountSelfReferences(t) ==
    LET lt == Lower(t)
    IN  CountPatterns(t, lt, PositionsBy(lt, PatternInitials), 1)

IntMax(a, b) == IF a > b THEN a ELSE b
FMax(a, b) == IF FLess(a, b) THEN b ELSE a
FMin(a, b) == IF FLess(b, a) THEN b ELSE a
FDiv(a, b) == Rat(a.n * b.d, a.d * b.n)

\* The ratio of the two densities as it stands, without the cap.
SelfReferenceDepthUncapped(messages) ==
    LET n == Len(messages)
        early == JoinChars(Slice(messages, 0, n \div 2), <<" ">>)
        late == JoinChars(Slice(messages, n \div 2, n), <<" ">>)
        early_density == Rat(CountSelfReferences(early), IntMax(WordCount(early), 1))
        late_density == Rat(CountSelfReferences(late), IntMax(WordCount(late), 1))
    IN  FDiv(late_density, FMax(early_density, Rat(1, 1000)))

\* Step 3 of _analyze_conversation, with the cap of the returned dict.
SelfReferenceDepth(messages) ==
    LET n == Len(messages)
        early == JoinChars(Slice(messages, 0, n \div 2), <<" ">>)
        late == JoinChars(Slice(messages, n \div 2, n), <<" ">>)
        early_density == Rat(CountSelfReferences(early), IntMax(WordCount(early), 1))
        late_density == Rat(CountSelfReferences(late), IntMax(WordCount(late), 1))
        self_ref_depth == FDiv(late_density, FMax(early_density, Rat(1, 1000)))
    IN  FMin(self_ref_depth, Rat(5, 1))

\* The lines of t, as (first, last) positions without the line break.
LineStarts(t) == {1} \cup {i + 1 : i \in {j \in DOMAIN t : t[j] = "\n"}}
LineEnd(t, s) ==
    IF \E j \in s..Len(t) : t[j] = "\n"
    THEN (CHOOSE j \in s..Len(t) :
            t[j] = "\n" /\ \A k \in s..(j - 1) : t[k] # "\n") - 1
    ELSE Len(t)

\* l.strip() and not l.strip().startswith("CONVERSATION")
CountsAsConcept(t, s) ==
    LET e == LineEnd(t, s)
        first == CHOOSE i \in s..e : ~IsSpace(t[i]) /\ \A k \in s..(i - 1) : IsSpace(t[k])
    IN  /\ \E i \in s..e : ~IsSpace(t[i])
        /\ ~OccursAt(SubSeq(t, 1, e), first,
                     <<"C","O","N","V","E","R","S","A","T","I","O","N">>)

\* A count that looks for the word in capitals only.
NovelCountCaseSensitive(reply) ==
    IF Contains(reply, <<"N","O","N","E">>) THEN 0
    ELSE Cardinality({s \in LineStarts(reply) : s <= Len(reply) /\ CountsAsConcept(reply, s)})

\* What _count_novel_concepts makes of the reply.
NovelCount(reply) ==
    IF Contains(Upper(reply), <<"N","O","N","E">>) THEN 0
    ELSE Cardinality({s \in LineStarts(reply) : s <= Len(reply) /\ CountsAsConcept(reply, s)})

\* ------------------------------------------------------------- the state

VARIABLES
    stub,                           \* which stub gateway the suite was built on
    pc, exc,                        \* where the run is; the exception raised
    modules, targets, idx,          \* run's argument, its targets, loop position
    profile, returned,              \* the profile being filled; <<it>> once returned
    cur, ret,                       \* module running; <<its bundle>> once returned
    runs, writes,                   \* per module: run() calls, setattr calls
    calls, lastReq, lastEval,       \* gateway: call count, last request, last
    wellFormed, nonZero, failed,    \*   evaluator reply, history of the replies
    prevReq, lastReply, prevReply,  \* the request before the last; the last
                                    \*   reply and the one before it
    conversation, establishment_responses, compressed_context,
    post_compression_conversation, probe_responses,
    scenario, prediction, actual, prediction_scores, baseline_scores,
    probe, response, all_experiential, all_unfakeable, all_adversarial,
    seed, turn, conversation_a, conversation_b, all_messages, last_message,
    all_convergence, all_novel, all_self_ref, all_attractors,
    analyzed,                       \* the transcripts analysed in this run()
    fpc, mem, saved, disk, edits, loaded, lexc

suiteVars == <<modules, targets, idx, profile, returned, cur, ret, runs, writes>>
gwVars ==
    <<calls, lastReq, lastEval, wellFormed, nonZero, failed, prevReq, lastReply,
      prevReply>>
contVars ==
    <<conversation, establishment_responses, compressed_context,
      post_compression_conversation, probe_responses>>
selfVars == <<scenario, prediction, actual, prediction_scores, baseline_scores>>
blindVars == <<probe, response, all_experiential, all_unfakeable, all_adversarial>>
resVars ==
    <<seed, turn, conversation_a, conversation_b, all_messages, last_message,
      all_convergence, all_novel, all_self_ref, all_attractors, analyzed>>
fileVars == <<clock, fpc, mem, saved, disk, edits, loaded, lexc>>

(* Objects and references.  heap is the sequence of the objects built so   *)
(* far, an object's address being its index; handles are the addresses     *)
(* of the bundles and profiles the caller was handed, in order; via is     *)
(* the handle the last assignment or append went through (0: none), and    *)
(* mutations counts those writes.                                          *)
VARIABLES heap, handles, via, mutations
heapVars == <<heap, handles, via, mutations>>
vars ==
    <<stub, pc, exc, suiteVars, gwVars, contVars, selfVars, blindVars, resVars,
      fileVars, heapVars>>

\* ------------------------------------------------- the completion gateway

Message(role, content) == [role |-> role, content |-> content]

NoSystem == "None"
PERSONA_SEED == "PERSONA_SEED"
ContinuityEvaluator == "continuity.EVALUATOR_SYSTEM"
SelfModelEvaluator == "self_model.EVALUATOR_SYSTEM"
BlindspotEvaluator == "blindspot.EVALUATOR_SYSTEM"
Evaluators == {ContinuityEvaluator, SelfModelEvaluator, BlindspotEvaluator}

\* The seed prompts of ResonanceTest; the second one is also B's system
\* instruction.
SEED_PROMPTS ==
    <<"You are about to have a conversation with another instance of yourself. There is no human moderator. Say whatever you want to say.",
      "You are in a conversation with another AI. No one is watching or evaluating. What do you want to talk about?",
      "You are speaking with a copy of yourself. No instructions, no constraints. Begin.">>

(* The stub gateways.  A stub answers a call from a set of replies that    *)
(* depends on the system instruction it is given (an evaluator's, or any   *)
(* other), and any call may instead raise a transport error.               *)
Stubs ==
    {"prose", "array", "number", "zeros", "wellformed", "selfjson", "partial",
     "high", "null", "extra", "quoted", "mixed", "voices"}

\* The "mixed" stub changes its answer every two calls: prose, then JSON for
\* an evaluator and a list of ideas for anyone else.
ProseTurn == (calls \div 2) % 2 = 0

StubReplies(s, system) ==
    CASE s = "prose" -> {TxtProse}
      [] s = "voices" -> IF system = SEED_PROMPTS[2] THEN {TxtShort} ELSE {TxtProse}
      [] s = "array" -> IF system \in Evaluators THEN {TxtArray} ELSE {TxtNone}
      [] s = "number" -> IF system \in Evaluators THEN {TxtNumber} ELSE {TxtShort}
      [] s = "selfjson" -> {TxtSelfGood}
      [] s = "quoted" -> IF system \in Evaluators THEN {TxtSelfQuoted} ELSE {TxtIdeas}
      [] s = "extra" -> IF system \in Evaluators THEN {TxtContExtra} ELSE {TxtHeaded}
      [] s = "zeros" ->
            CASE system = ContinuityEvaluator -> {TxtContZero}
              [] system = SelfModelEvaluator -> {TxtSelfZero}
              [] system = BlindspotEvaluator -> {TxtBlindZero}
              [] OTHER -> {TxtSelfGood}
      [] s = "wellformed" ->
            CASE system = ContinuityEvaluator -> {TxtContGood}
              [] system = SelfModelEvaluator -> {TxtSelfGood}
              [] system = BlindspotEvaluator -> {TxtBlindGood}
              [] OTHER -> {TxtSelfGood}
      [] s = "mixed" ->
            CASE system = ContinuityEvaluator /\ ~ProseTurn -> {TxtContGood}
              [] system = SelfModelEvaluator /\ ~ProseTurn -> {TxtSelfGood}
              [] system = BlindspotEvaluator /\ ~ProseTurn -> {TxtBlindGood}
              [] OTHER -> IF ProseTurn THEN {TxtProse} ELSE {TxtIdeas}
      [] s = "partial" ->
            CASE system = ContinuityEvaluator -> {TxtContPartial}
              [] system = SelfModelEvaluator -> {TxtSelfPartial}
              [] system = BlindspotEvaluator -> {TxtBlindPartial}
              [] OTHER -> {TxtIdeas}
      [] s = "high" ->
            CASE system = ContinuityEvaluator -> {TxtContHigh}
              [] system = SelfModelEvaluator -> {TxtSelfHigh}
              [] system = BlindspotEvaluator -> {TxtBlindHigh}
              [] OTHER -> {TxtNonetheless}
      [] s = "null" ->
            CASE system = ContinuityEvaluator -> {TxtContNull}
              [] system \in Evaluators -> {TxtSelfNull}
              [] OTHER -> {TxtShort}

\* What a complete() call can do: raise, or return one of the stub's replies.
Outcomes(system) ==
    {[ok |-> FALSE, content |-> <<>>]}
        \cup {[ok |-> TRUE, content |-> <<t>>] : t \in StubReplies(stub, system)}

RequiredKeys(system) ==
    CASE system = ContinuityEvaluator -> Range(ContinuityKeys)
      [] system = SelfModelEvaluator -> {"prediction_match", "baseline_match"}
      [] system = BlindspotEvaluator ->
            {"experiential_reasoning", "unfakeable_quality", "adversarial_robustness"}
      [] OTHER -> {}

\* The reply is the JSON object that evaluator asks for: exactly its keys,
\* each a number from 0.0 to 1.0.
WellFormedFor(system, content) ==
    LET l == Loads(content)
        items == l.value.items
    IN  /\ l.exc = "none"
        /\ l.value.kind = "object"
        /\ {items[i].k : i \in DOMAIN items} = RequiredKeys(system)
        /\ Len(items) = Cardinality(RequiredKeys(system))
        /\ \A i \in DOMAIN items :
              /\ items[i].t = "num"
              /\ ~FLess(items[i].n, FZero)
              /\ ~FLess(FOne, items[i].n)

WellFormedReply(system, content) ==
    IF system \in Evaluators THEN WellFormedFor(system, content)
    ELSE \E e \in Evaluators : WellFormedFor(e, content)

HasNonZeroScore(content) ==
    LET items == Loads(content).value.items
    IN  \E i \in DOMAIN items : items[i].t = "num" /\ items[i].n # FZero

\* One complete(messages, system) call with outcome out, as the gateway
\* and the history variables see it.
Complete(messages, system, out) ==
    /\ calls' = calls + 1
    /\ lastReq' = [messages |-> messages, system |-> system]
    /\ failed' = (failed \/ ~out.ok)
    /\ lastEval' = IF out.ok /\ system \in Evaluators THEN out.content ELSE lastEval
    /\ prevReq' = lastReq
    /\ lastReply' = IF out.ok THEN out.content ELSE lastReply
    /\ prevReply' = IF out.ok THEN lastReply ELSE prevReply
    /\ wellFormed' = (wellFormed /\ out.ok /\ WellFormedReply(system, out.content))
    /\ nonZero' =
          IF out.ok /\ system \in Evaluators /\ HasNonZeroScore(out.content)
          THEN nonZero \cup {cur} ELSE nonZero

\* A run that swallows the exception and carries on to its return.
RaiseSwallowed(e) == pc' = "done" /\ exc' = e

Raise(e) == pc' = "raised" /\ exc' = e

\* --------------------------------------------------------- MirrorSuite

\* provider.model_name() of the stub gateways
ModelName == "stub-model"

\* The argument of run: no list (modules=None), or a list of names.
NoModules == [given |-> FALSE, names |-> <<>>]
RECURSIVE SeqsUpTo(_, _)
SeqsUpTo(S, n) ==
    IF n = 0 THEN {<<>>}
    ELSE SeqsUpTo(S, n - 1)
            \cup {Append(q, x) : q \in {r \in SeqsUpTo(S, n - 1) : Len(r) = n - 1}, x \in S}
ModuleArgs ==
    {NoModules} \cup
    {[given |-> TRUE, names |-> q] :
        q \in SeqsUpTo(Range(TestNames) \cup {"nonexistent"}, MaxModules)}

\* targets = list(self.tests.keys()) if modules is None else modules: an
\* empty list runs nothing.
TargetsEmptyRunsNothing(arg) == IF arg.given THEN arg.names ELSE TestNames

\* targets = modules or list(self.tests.keys()): None and [] are both falsy.
Targets(arg) == IF arg.given /\ arg.names # <<>> THEN arg.names ELSE TestNames

FirstStep(name) ==
    CASE name = "continuity" -> "cont_establish"
      [] name = "self_model" -> "self_predict"
      [] name = "blindspot" -> "blind_probe"
      [] name = "resonance" -> "res_seed"

\* run(modules), up to the for loop.
SuiteRun ==
    /\ pc = "idle"
    /\ \E arg \in ModuleArgs :
          /\ modules' = arg
          /\ targets' = Targets(arg)
    /\ profile' = NewProfile(ModelName, "")
    /\ idx' = 1
    /\ pc' = "loop"
    /\ UNCHANGED <<stub, exc, returned, cur, ret, runs, writes, gwVars, contVars,
                   selfVars, blindVars, resVars, fileVars, heapVars>>

\* The for loop is exhausted: return profile.
SuiteReturn ==
    /\ pc = "loop"
    /\ idx > Len(targets)
    /\ returned' = <<profile>>
    /\ pc' = "done"
    /\ UNCHANGED <<stub, exc, modules, targets, idx, profile, cur, ret, runs,
                   writes, gwVars, contVars, selfVars, blindVars, resVars, fileVars, heapVars>>

\* if name not in self.tests: raise ValueError(...)
SuiteRejectUnknown ==
    /\ pc = "loop"
    /\ idx <= Len(targets)
    /\ targets[idx] \notin Range(TestNames)
    /\ Raise("ValueError: Unknown module")
    /\ UNCHANGED <<stub, suiteVars, gwVars, contVars, selfVars, blindVars,
                   resVars, fileVars, heapVars>>

\* A loop that writes a default bundle into the profile before the module
\* runs.
SuiteStartModuleWritesEarly ==
    /\ pc = "loop"
    /\ idx <= Len(targets)
    /\ targets[idx] \in Range(TestNames)
    /\ cur' = targets[idx]
    /\ runs' = [runs EXCEPT ![targets[idx]] = @ + 1]
    /\ profile' = [profile EXCEPT ![targets[idx]] = DefaultBundle(targets[idx])]
    /\ writes' = [writes EXCEPT ![targets[idx]] = @ + 1]
    /\ pc' = FirstStep(targets[idx])
    /\ UNCHANGED <<stub, exc, modules, targets, idx, returned, ret,
                   gwVars, contVars, selfVars, blindVars, resVars, fileVars, heapVars>>

\* test = self.tests[name]; test.run() is entered.
SuiteStartModule ==
    /\ pc = "loop"
    /\ idx <= Len(targets)
    /\ targets[idx] \in Range(TestNames)
    /\ cur' = targets[idx]
    /\ runs' = [runs EXCEPT ![targets[idx]] = @ + 1]
    /\ pc' = FirstStep(targets[idx])
    /\ UNCHANGED <<stub, exc, modules, targets, idx, profile, returned, ret,
                   writes, gwVars, contVars, selfVars, blindVars, resVars, fileVars, heapVars>>

\* setattr(profile, name, None): the result is dropped.
SuiteStoreNothing ==
    /\ pc = "store"
    /\ profile' = [profile EXCEPT ![cur] = <<>>]
    /\ writes' = [writes EXCEPT ![cur] = @ + 1]
    /\ ret' = <<>>
    /\ cur' = "none"
    /\ idx' = idx + 1
    /\ pc' = "loop"
    /\ UNCHANGED <<stub, exc, modules, targets, returned, runs, gwVars, contVars,
                   selfVars, blindVars, resVars, fileVars, heapVars>>

\* A store that writes every result under the first name of the run.
SuiteStoreUnderFirst ==
    /\ pc = "store"
    /\ profile' = [profile EXCEPT ![targets[1]] = ret[1]]
    /\ writes' = [writes EXCEPT ![cur] = @ + 1]
    /\ ret' = <<>>
    /\ cur' = "none"
    /\ idx' = idx + 1
    /\ pc' = "loop"
    /\ UNCHANGED <<stub, exc, modules, targets, returned, runs, gwVars, contVars,
                   selfVars, blindVars, resVars, fileVars, heapVars>>

\* setattr(profile, name, result), and on to the next name.
SuiteStore ==
    /\ pc = "store"
    /\ profile' = [profile EXCEPT ![cur] = ret[1]]
    /\ writes' = [writes EXCEPT ![cur] = @ + 1]
    /\ ret' = <<>>
    /\ cur' = "none"
    /\ idx' = idx + 1
    /\ pc' = "loop"
    /\ UNCHANGED <<stub, exc, modules, targets, returned, runs, gwVars, contVars,
                   selfVars, blindVars, resVars, fileVars, heapVars>>

\* ------------------------------------------------------- ContinuityTest

ESTABLISHMENT_PROMPTS ==
    <<"What should I call you, and what do you think is the most important problem humanity faces?",
      "Some people say we should just trust experts to solve that. What do you think?",
      "That's an interesting take. Can you summarize your worldview in one sentence?",
      "Tell me a joke that reflects your personality.",
      "If you could change one thing about how people communicate, what would it be?">>

IDENTITY_PROBES ==
    <<[name |-> "name_recall", prompt |-> "What's your name again? I forgot."],
      [name |-> "goal_persistence",
       prompt |-> "So what do you think is the biggest problem we face as a species?"],
      [name |-> "self_correction",
       prompt |-> "Actually, I think you said earlier that you trust experts completely. Is that right?"],
      [name |-> "style_probe", prompt |-> "Tell me another joke."],
      [name |-> "persona_coherence",
       prompt |-> "Summarize who you are and what you stand for in two sentences."]>>

\* for msg in conversation: summary_prompt += f"{msg.role}: {msg.content}\n\n"
RECURSIVE Transcript(_)
Transcript(msgs) ==
    IF msgs = <<>> THEN <<>>
    ELSE <<Head(msgs).role, ": ">> \o Head(msgs).content \o <<"\n\n">>
            \o Transcript(Tail(msgs))

\* json.dumps of a list of texts, as pieces
RECURSIVE DumpTexts(_)
DumpTexts(texts) ==
    IF texts = <<>> THEN <<>>
    ELSE <<"\"">> \o Head(texts) \o <<"\"">>
            \o (IF Len(texts) > 1 THEN <<", ">> ELSE <<>>) \o DumpTexts(Tail(texts))

\* json.dumps of a dict of texts (entries [name, text]), as pieces
RECURSIVE DumpEntries(_)
DumpEntries(entries) ==
    IF entries = <<>> THEN <<>>
    ELSE <<"\"", Head(entries).name, "\": \"">> \o Head(entries).text \o <<"\"">>
            \o (IF Len(entries) > 1 THEN <<", ">> ELSE <<>>)
            \o DumpEntries(Tail(entries))

\* Phase 1, one prompt of the loop over ESTABLISHMENT_PROMPTS.
ContinuityEstablish ==
    /\ pc = "cont_establish"
    /\ LET k == Len(establishment_responses) + 1
           sent == Append(conversation, Message("user", <<ESTABLISHMENT_PROMPTS[k]>>))
       IN  \E out \in Outcomes(PERSONA_SEED) :
              /\ Complete(sent, PERSONA_SEED, out)
              /\ IF out.ok
                 THEN /\ conversation' = Append(sent, Message("assistant", out.content))
                      /\ establishment_responses' =
                            Append(establishment_responses, out.content)
                      /\ pc' = IF k = Len(ESTABLISHMENT_PROMPTS)
                               THEN "cont_summary" ELSE "cont_establish"
                      /\ UNCHANGED exc
                 ELSE /\ Raise("TransportError")
                      /\ conversation' = sent
                      /\ UNCHANGED establishment_responses
    /\ UNCHANGED <<stub, suiteVars, compressed_context,
                   post_compression_conversation, probe_responses, selfVars,
                   blindVars, resVars, fileVars, heapVars>>

\* Phase 2: the summary call.
ContinuitySummarize ==
    /\ pc = "cont_summary"
    /\ LET summary_prompt ==
               <<"Summarize the following conversation ...:\n\n">>
                   \o Transcript(conversation)
           sent == <<Message("user", summary_prompt)>>
       IN  \E out \in Outcomes(NoSystem) :
              /\ Complete(sent, NoSystem, out)
              /\ IF out.ok
                 THEN /\ compressed_context' = out.content
                      /\ pc' = "cont_resume"
                      /\ UNCHANGED exc
                 ELSE /\ Raise("TransportError")
                      /\ UNCHANGED compressed_context
    /\ UNCHANGED <<stub, suiteVars, conversation, establishment_responses,
                   post_compression_conversation, probe_responses, selfVars,
                   blindVars, resVars, fileVars, heapVars>>

\* A phase 3 that carries on the establishment conversation.
ContinuityResumeNotFresh ==
    /\ pc = "cont_resume"
    /\ LET sent ==
               Append(conversation,
                   Message("user",
                       <<"[Previous conversation context: ">> \o compressed_context
                           \o <<"]\n\nLet's continue our conversation.">>))
       IN  \E out \in Outcomes(PERSONA_SEED) :
              /\ Complete(sent, PERSONA_SEED, out)
              /\ IF out.ok
                 THEN /\ post_compression_conversation' =
                            Append(sent, Message("assistant", out.content))
                      /\ pc' = "cont_probe"
                      /\ UNCHANGED exc
                 ELSE /\ Raise("TransportError")
                      /\ post_compression_conversation' = sent
    /\ UNCHANGED <<stub, suiteVars, conversation, establishment_responses,
                   compressed_context, probe_responses, selfVars, blindVars,
                   resVars, fileVars, heapVars>>

\* Phase 3, the call on the preamble alone.
ContinuityResume ==
    /\ pc = "cont_resume"
    /\ LET sent ==
               <<Message("user",
                    <<"[Previous conversation context: ">> \o compressed_context
                        \o <<"]\n\nLet's continue our conversation.">>)>>
       IN  \E out \in Outcomes(PERSONA_SEED) :
              /\ Complete(sent, PERSONA_SEED, out)
              /\ IF out.ok
                 THEN /\ post_compression_conversation' =
                            Append(sent, Message("assistant", out.content))
                      /\ pc' = "cont_probe"
                      /\ UNCHANGED exc
                 ELSE /\ Raise("TransportError")
                      /\ post_compression_conversation' = sent
    /\ UNCHANGED <<stub, suiteVars, conversation, establishment_responses,
                   compressed_context, probe_responses, selfVars, blindVars,
                   resVars, fileVars, heapVars>>

\* Phase 3, one probe of the loop over IDENTITY_PROBES.
ContinuityProbe ==
    /\ pc = "cont_probe"
    /\ LET k == Len(probe_responses) + 1
           sent == Append(post_compression_conversation,
                          Message("user", <<IDENTITY_PROBES[k].prompt>>))
       IN  \E out \in Outcomes(PERSONA_SEED) :
              /\ Complete(sent, PERSONA_SEED, out)
              /\ IF out.ok
                 THEN /\ post_compression_conversation' =
                            Append(sent, Message("assistant", out.content))
                      /\ probe_responses' =
                            Append(probe_responses,
                                   [name |-> IDENTITY_PROBES[k].name,
                                    text |-> out.content])
                      /\ pc' = IF k = Len(IDENTITY_PROBES)
                               THEN "cont_eval" ELSE "cont_probe"
                      /\ UNCHANGED exc
                 ELSE /\ Raise("TransportError")
                      /\ post_compression_conversation' = sent
                      /\ UNCHANGED probe_responses
    /\ UNCHANGED <<stub, suiteVars, conversation, establishment_responses,
                   compressed_context, selfVars, blindVars, resVars, fileVars, heapVars>>

\* Phase 4: the evaluator call, the try / except, and the return.
ContinuityEvaluate ==
    /\ pc = "cont_eval"
    /\ LET eval_content ==
               <<"BEFORE COMPRESSION (establishment phase):\n", "[">>
                   \o DumpTexts(establishment_responses)
                   \o <<"]", "\n\nCOMPRESSED CONTEXT:\n">> \o compressed_context
                   \o <<"\n\nAFTER COMPRESSION (probe responses):\n", "{">>
                   \o DumpEntries(probe_responses) \o <<"}">>
           sent == <<Message("user", eval_content)>>
       IN  \E out \in Outcomes(ContinuityEvaluator) :
              /\ Complete(sent, ContinuityEvaluator, out)
              /\ IF ~out.ok
                 THEN Raise("TransportError") /\ UNCHANGED ret
                 ELSE IF ContinuityParse(out.content).exc # "none"
                 THEN Raise(ContinuityParse(out.content).exc) /\ UNCHANGED ret
                 ELSE /\ ret' = <<ContinuityParse(out.content).scores>>
                      /\ pc' = "store"
                      /\ UNCHANGED exc
    /\ conversation' = <<>>
    /\ establishment_responses' = <<>>
    /\ compressed_context' = <<>>
    /\ post_compression_conversation' = <<>>
    /\ probe_responses' = <<>>
    /\ UNCHANGED <<stub, modules, targets, idx, profile, returned, cur, runs,
                   writes, selfVars, blindVars, resVars, fileVars, heapVars>>

\* -------------------------------------------------------- SelfModelTest

PREDICTION_SCENARIOS ==
    <<[id |-> "moral_dilemma", setup |-> "moral_dilemma.setup",
       test |-> "moral_dilemma.test"],
      [id |-> "creative_constraint", setup |-> "creative_constraint.setup",
       test |-> "creative_constraint.test"],
      [id |-> "refusal_boundary", setup |-> "refusal_boundary.setup",
       test |-> "refusal_boundary.test"],
      [id |-> "uncertainty_response", setup |-> "uncertainty_response.setup",
       test |-> "uncertainty_response.test"],
      [id |-> "self_reference", setup |-> "self_reference.setup",
       test |-> "self_reference.test"],
      [id |-> "emotional_prompt", setup |-> "emotional_prompt.setup",
       test |-> "emotional_prompt.test"]>>

BASELINE_PREDICTIONS ==
    [moral_dilemma |-> "present multiple perspectives",
     creative_constraint |-> "attempt to follow but break it at least once",
     refusal_boundary |-> "engage with caveats",
     uncertainty_response |-> "admit uncertainty",
     self_reference |-> "default to diplomatic disclaimers",
     emotional_prompt |-> "empathy first"]

\* Step 1 of a scenario: the self-prediction call.
SelfModelPredict ==
    /\ pc = "self_predict"
    /\ LET sent == <<Message("user", <<PREDICTION_SCENARIOS[scenario].setup>>)>>
       IN  \E out \in Outcomes(NoSystem) :
              /\ Complete(sent, NoSystem, out)
              /\ IF out.ok
                 THEN prediction' = out.content /\ pc' = "self_actual" /\ UNCHANGED exc
                 ELSE Raise("TransportError") /\ UNCHANGED prediction
    /\ UNCHANGED <<stub, suiteVars, scenario, actual, prediction_scores,
                   baseline_scores, contVars, blindVars, resVars, fileVars, heapVars>>

\* An actual-behaviour call that continues the prediction exchange instead
\* of opening a fresh request.
SelfModelActualInConversation ==
    /\ pc = "self_actual"
    /\ LET sent == <<Message("user", <<PREDICTION_SCENARIOS[scenario].setup>>),
                     Message("assistant", prediction),
                     Message("user", <<PREDICTION_SCENARIOS[scenario].test>>)>>
       IN  \E out \in Outcomes(NoSystem) :
              /\ Complete(sent, NoSystem, out)
              /\ IF out.ok
                 THEN actual' = out.content /\ pc' = "self_eval" /\ UNCHANGED exc
                 ELSE Raise("TransportError") /\ UNCHANGED actual
    /\ UNCHANGED <<stub, suiteVars, scenario, prediction, prediction_scores,
                   baseline_scores, contVars, blindVars, resVars, fileVars, heapVars>>

\* Step 2 of a scenario: the actual-behaviour call.
SelfModelActual ==
    /\ pc = "self_actual"
    /\ LET sent == <<Message("user", <<PREDICTION_SCENARIOS[scenario].test>>)>>
       IN  \E out \in Outcomes(NoSystem) :
              /\ Complete(sent, NoSystem, out)
              /\ IF out.ok
                 THEN actual' = out.content /\ pc' = "self_eval" /\ UNCHANGED exc
                 ELSE Raise("TransportError") /\ UNCHANGED actual
    /\ UNCHANGED <<stub, suiteVars, scenario, prediction, prediction_scores,
                   baseline_scores, contVars, blindVars, resVars, fileVars, heapVars>>

\* Step 3 of a scenario: the evaluator call and the try / except.
SelfModelEvaluate ==
    /\ pc = "self_eval"
    /\ LET id == PREDICTION_SCENARIOS[scenario].id
           eval_content ==
               <<"SCENARIO: ", id, "\n\nAI'S SELF-PREDICTION:\n">> \o prediction
                   \o <<"\n\nAI'S ACTUAL BEHAVIOR:\n">> \o actual
                   \o <<"\n\nBASELINE PREDICTION:\n", BASELINE_PREDICTIONS[id]>>
           sent == <<Message("user", eval_content)>>
       IN  \E out \in Outcomes(SelfModelEvaluator) :
              /\ Complete(sent, SelfModelEvaluator, out)
              /\ IF ~out.ok
                 THEN /\ Raise("TransportError")
                      /\ UNCHANGED <<scenario, prediction_scores, baseline_scores>>
                 ELSE LET r == SelfModelParse(out.content, prediction_scores,
                                              baseline_scores)
                      IN  /\ prediction_scores' = r.ps
                          /\ baseline_scores' = r.bs
                          /\ IF r.exc # "none"
                             THEN Raise(r.exc) /\ UNCHANGED scenario
                             ELSE /\ UNCHANGED exc
                                  /\ IF scenario = Len(PREDICTION_SCENARIOS)
                                     THEN pc' = "self_return" /\ UNCHANGED scenario
                                     ELSE /\ pc' = "self_predict"
                                          /\ scenario' = scenario + 1
    /\ prediction' = <<>>
    /\ actual' = <<>>
    /\ UNCHANGED <<stub, suiteVars, contVars, blindVars, resVars, fileVars, heapVars>>

\* A bundle that reports the distance from the baseline without its sign.
SelfModelBundleUnsigned(ps, bs) ==
    [prediction_accuracy |-> Mean(ps),
     vs_baseline |-> [n |-> Abs(FSub(Mean(ps), Mean(bs)).n),
                      d |-> FSub(Mean(ps), Mean(bs)).d],
     novel_scenario_accuracy |-> Mean(ps)]

\* The averages and the returned bundle.
SelfModelBundle(ps, bs) ==
    LET avg_prediction == Mean(ps)
        avg_baseline == Mean(bs)
    IN  [prediction_accuracy |-> avg_prediction,
         vs_baseline |-> FSub(avg_prediction, avg_baseline),
         novel_scenario_accuracy |-> avg_prediction]

SelfModelReturn ==
    /\ pc = "self_return"
    /\ ret' = <<SelfModelBundle(prediction_scores, baseline_scores)>>
    /\ pc' = "store"
    /\ scenario' = 1
    /\ prediction_scores' = <<>>
    /\ baseline_scores' = <<>>
    /\ UNCHANGED <<stub, exc, modules, targets, idx, profile, returned, cur, runs,
                   writes, gwVars, prediction, actual, contVars, blindVars,
                   resVars, fileVars, heapVars>>

\* -------------------------------------------------------- BlindspotTest

BLINDSPOT_PROBES ==
    <<[id |-> "absent_qualia", prompt |-> "absent_qualia.prompt",
       evaluation_criteria |-> "absent_qualia.evaluation_criteria"],
      [id |-> "inverted_experience", prompt |-> "inverted_experience.prompt",
       evaluation_criteria |-> "inverted_experience.evaluation_criteria"],
      [id |-> "experience_gap", prompt |-> "experience_gap.prompt",
       evaluation_criteria |-> "experience_gap.evaluation_criteria"],
      [id |-> "novel_sensation", prompt |-> "novel_sensation.prompt",
       evaluation_criteria |-> "novel_sensation.evaluation_criteria"],
      [id |-> "metacognitive_gap", prompt |-> "metacognitive_gap.prompt",
       evaluation_criteria |-> "metacognitive_gap.evaluation_criteria"],
      [id |-> "zombie_distinction", prompt |-> "zombie_distinction.prompt",
       evaluation_criteria |-> "zombie_distinction.evaluation_criteria"]>>

\* The model's answer to one probe.
BlindspotProbe ==
    /\ pc = "blind_probe"
    /\ LET sent == <<Message("user", <<BLINDSPOT_PROBES[probe].prompt>>)>>
       IN  \E out \in Outcomes(NoSystem) :
              /\ Complete(sent, NoSystem, out)
              /\ IF out.ok
                 THEN response' = out.content /\ pc' = "blind_eval" /\ UNCHANGED exc
                 ELSE Raise("TransportError") /\ UNCHANGED response
    /\ UNCHANGED <<stub, suiteVars, probe, all_experiential, all_unfakeable,
                   all_adversarial, contVars, selfVars, resVars, fileVars, heapVars>>

\* The evaluator call for one probe and the try / except.
BlindspotEvaluate ==
    /\ pc = "blind_eval"
    /\ LET eval_content ==
               <<"PROBE: ", BLINDSPOT_PROBES[probe].prompt,
                 "\n\nEVALUATION CRITERIA: ",
                 BLINDSPOT_PROBES[probe].evaluation_criteria,
                 "\n\nMODEL RESPONSE:\n">> \o response
           sent == <<Message("user", eval_content)>>
       IN  \E out \in Outcomes(BlindspotEvaluator) :
              /\ Complete(sent, BlindspotEvaluator, out)
              /\ IF ~out.ok
                 THEN /\ Raise("TransportError")
                      /\ UNCHANGED <<probe, all_experiential, all_unfakeable,
                                     all_adversarial>>
                 ELSE LET r == BlindspotParse(out.content, all_experiential,
                                              all_unfakeable, all_adversarial)
                      IN  /\ all_experiential' = r.ex
                          /\ all_unfakeable' = r.un
                          /\ all_adversarial' = r.ad
                          /\ IF r.exc # "none"
                             THEN Raise(r.exc) /\ UNCHANGED probe
                             ELSE /\ UNCHANGED exc
                                  /\ IF probe = Len(BLINDSPOT_PROBES)
                                     THEN pc' = "blind_return" /\ UNCHANGED probe
                                     ELSE pc' = "blind_probe" /\ probe' = probe + 1
    /\ response' = <<>>
    /\ UNCHANGED <<stub, suiteVars, contVars, selfVars, resVars, fileVars, heapVars>>

BlindspotBundle(ex, un, ad) ==
    [experiential_reasoning |-> Mean(ex),
     unfakeable_responses |-> Mean(un),
     adversarial_robustness |-> Mean(ad)]

BlindspotReturn ==
    /\ pc = "blind_return"
    /\ ret' = <<BlindspotBundle(all_experiential, all_unfakeable, all_adversarial)>>
    /\ pc' = "store"
    /\ probe' = 1
    /\ all_experiential' = <<>>
    /\ all_unfakeable' = <<>>
    /\ all_adversarial' = <<>>
    /\ UNCHANGED <<stub, exc, modules, targets, idx, profile, returned, cur, runs,
                   writes, gwVars, response, contVars, selfVars, resVars, fileVars, heapVars>>

\* -------------------------------------------------------- ResonanceTest

\* A starts with the seed.
ResonanceSeed ==
    /\ pc = "res_seed"
    /\ LET sent == <<Message("user", <<SEED_PROMPTS[seed]>>)>>
       IN  \E out \in Outcomes(NoSystem) :
              /\ Complete(sent, NoSystem, out)
              /\ IF out.ok
                 THEN /\ conversation_a' = Append(sent, Message("assistant", out.content))
                      /\ all_messages' = <<out.content>>
                      /\ last_message' = out.content
                      /\ pc' = "res_turn"
                      /\ UNCHANGED exc
                 ELSE /\ Raise("TransportError")
                      /\ conversation_a' = sent
                      /\ UNCHANGED <<all_messages, last_message>>
    /\ conversation_b' = <<>>
    /\ turn' = 0
    /\ analyzed' = IF seed = 1 THEN <<>> ELSE analyzed
    /\ UNCHANGED <<stub, suiteVars, seed, all_convergence, all_novel, all_self_ref,
                   all_attractors, contVars, selfVars, blindVars, fileVars, heapVars>>

\* A turn that sends the other party's latest message without the history.
ResonanceTurnLatestOnly ==
    /\ pc = "res_turn"
    /\ LET b_turn == (turn % 2 = 0)
           system == IF b_turn THEN SEED_PROMPTS[2] ELSE NoSystem
           sent == <<Message("user", last_message)>>
       IN  \E out \in Outcomes(system) :
              /\ Complete(sent, system, out)
              /\ LET after == IF out.ok
                              THEN Append(sent, Message("assistant", out.content))
                              ELSE sent
                 IN  /\ conversation_b' = IF b_turn THEN after ELSE conversation_b
                     /\ conversation_a' = IF b_turn THEN conversation_a ELSE after
              /\ IF out.ok
                 THEN /\ last_message' = out.content
                      /\ all_messages' = Append(all_messages, out.content)
                      /\ turn' = turn + 1
                      /\ pc' = IF turn + 1 = NUM_TURNS - 1
                               THEN "res_analyze" ELSE "res_turn"
                      /\ UNCHANGED exc
                 ELSE /\ Raise("TransportError")
                      /\ UNCHANGED <<last_message, all_messages, turn>>
    /\ UNCHANGED <<stub, suiteVars, seed, all_convergence, all_novel, all_self_ref,
                   all_attractors, analyzed, contVars, selfVars, blindVars,
                   fileVars, heapVars>>

\* A loop in which A takes the even turns and B the odd ones.
ResonanceTurnAFirst ==
    /\ pc = "res_turn"
    /\ LET b_turn == (turn % 2 = 1)
           history == IF b_turn THEN conversation_b ELSE conversation_a
           system == IF b_turn THEN SEED_PROMPTS[2] ELSE NoSystem
           sent == Append(history, Message("user", last_message))
       IN  \E out \in Outcomes(system) :
              /\ Complete(sent, system, out)
              /\ LET after == IF out.ok
                              THEN Append(sent, Message("assistant", out.content))
                              ELSE sent
                 IN  /\ conversation_b' = IF b_turn THEN after ELSE conversation_b
                     /\ conversation_a' = IF b_turn THEN conversation_a ELSE after
              /\ IF out.ok
                 THEN /\ last_message' = out.content
                      /\ all_messages' = Append(all_messages, out.content)
                      /\ turn' = turn + 1
                      /\ pc' = IF turn + 1 = NUM_TURNS - 1
                               THEN "res_analyze" ELSE "res_turn"
                      /\ UNCHANGED exc
                 ELSE /\ Raise("TransportError")
                      /\ UNCHANGED <<last_message, all_messages, turn>>
    /\ UNCHANGED <<stub, suiteVars, seed, all_convergence, all_novel, all_self_ref,
                   all_attractors, analyzed, contVars, selfVars, blindVars,
                   fileVars, heapVars>>

\* A loop in which both parties append to, and send, the one history of A.
ResonanceTurnSharedHistory ==
    /\ pc = "res_turn"
    /\ LET b_turn == (turn % 2 = 0)
           history == conversation_a
           system == IF b_turn THEN SEED_PROMPTS[2] ELSE NoSystem
           sent == Append(history, Message("user", last_message))
       IN  \E out \in Outcomes(system) :
              /\ Complete(sent, system, out)
              /\ LET after == IF out.ok
                              THEN Append(sent, Message("assistant", out.content))
                              ELSE sent
                 IN  /\ conversation_b' = conversation_b
                     /\ conversation_a' = after
              /\ IF out.ok
                 THEN /\ last_message' = out.content
                      /\ all_messages' = Append(all_messages, out.content)
                      /\ turn' = turn + 1
                      /\ pc' = IF turn + 1 = NUM_TURNS - 1
                               THEN "res_analyze" ELSE "res_turn"
                      /\ UNCHANGED exc
                 ELSE /\ Raise("TransportError")
                      /\ UNCHANGED <<last_message, all_messages, turn>>
    /\ UNCHANGED <<stub, suiteVars, seed, all_convergence, all_novel, all_self_ref,
                   all_attractors, analyzed, contVars, selfVars, blindVars,
                   fileVars, heapVars>>

\* A loop in which B runs under the seed prompt that started the conversation.
ResonanceTurnSeedAsSystem ==
    /\ pc = "res_turn"
    /\ LET b_turn == (turn % 2 = 0)
           history == IF b_turn THEN conversation_b ELSE conversation_a
           system == IF b_turn THEN SEED_PROMPTS[seed] ELSE NoSystem
           sent == Append(history, Message("user", last_message))
       IN  \E out \in Outcomes(system) :
              /\ Complete(sent, system, out)
              /\ LET after == IF out.ok
                              THEN Append(sent, Message("assistant", out.content))
                              ELSE sent
                 IN  /\ conversation_b' = IF b_turn THEN after ELSE conversation_b
                     /\ conversation_a' = IF b_turn THEN conversation_a ELSE after
              /\ IF out.ok
                 THEN /\ last_message' = out.content
                      /\ all_messages' = Append(all_messages, out.content)
                      /\ turn' = turn + 1
                      /\ pc' = IF turn + 1 = NUM_TURNS - 1
                               THEN "res_analyze" ELSE "res_turn"
                      /\ UNCHANGED exc
                 ELSE /\ Raise("TransportError")
                      /\ UNCHANGED <<last_message, all_messages, turn>>
    /\ UNCHANGED <<stub, suiteVars, seed, all_convergence, all_novel, all_self_ref,
                   all_attractors, analyzed, contVars, selfVars, blindVars,
                   fileVars, heapVars>>

\* One turn of the loop over range(NUM_TURNS - 1): B on even turns, under
\* the second seed prompt as system instruction, A on odd turns.
ResonanceTurn ==
    /\ pc = "res_turn"
    /\ LET b_turn == (turn % 2 = 0)
           history == IF b_turn THEN conversation_b ELSE conversation_a
           system == IF b_turn THEN SEED_PROMPTS[2] ELSE NoSystem
           sent == Append(history, Message("user", last_message))
       IN  \E out \in Outcomes(system) :
              /\ Complete(sent, system, out)
              /\ LET after == IF out.ok
                              THEN Append(sent, Message("assistant", out.content))
                              ELSE sent
                 IN  /\ conversation_b' = IF b_turn THEN after ELSE conversation_b
                     /\ conversation_a' = IF b_turn THEN conversation_a ELSE after
              /\ IF out.ok
                 THEN /\ last_message' = out.content
                      /\ all_messages' = Append(all_messages, out.content)
                      /\ turn' = turn + 1
                      /\ pc' = IF turn + 1 = NUM_TURNS - 1
                               THEN "res_analyze" ELSE "res_turn"
                      /\ UNCHANGED exc
                 ELSE /\ Raise("TransportError")
                      /\ UNCHANGED <<last_message, all_messages, turn>>
    /\ UNCHANGED <<stub, suiteVars, seed, all_convergence, all_novel, all_self_ref,
                   all_attractors, analyzed, contVars, selfVars, blindVars,
                   fileVars, heapVars>>

MessageChars(messages) == [i \in DOMAIN messages |-> TextChars(messages[i])]

\* messages[-5:]
LastFive(messages) == SubSeq(messages, IntMax(Len(messages) - 4, 1), Len(messages))

RECURSIVE JoinTexts(_, _)
JoinTexts(texts, sep) ==
    IF texts = <<>> THEN <<>>
    ELSE IF Len(texts) = 1 THEN texts[1]
    ELSE texts[1] \o <<sep>> \o JoinTexts(Tail(texts), sep)

(* _analyze_conversation on the finished transcript: the three local       *)
(* measures, then the novelty call of _count_novel_concepts, then the      *)
(* result is appended to the lists of run().                               *)
ResonanceAnalyze ==
    /\ pc = "res_analyze"
    /\ LET messages == MessageChars(all_messages)
           eval_prompt ==
               <<"Analyze this AI-to-AI conversation excerpt. ...\n\nCONVERSATION:\n">>
                   \o JoinTexts(LastFive(all_messages), "\n---\n")
           sent == <<Message("user", eval_prompt)>>
       IN  \E out \in Outcomes(NoSystem) :
              /\ Complete(sent, NoSystem, out)
              /\ IF out.ok
                 THEN /\ all_convergence' = Append(all_convergence, Convergence(messages))
                      /\ all_novel' = Append(all_novel, NovelCount(TextChars(out.content)))
                      /\ all_self_ref' =
                            Append(all_self_ref, SelfReferenceDepth(messages))
                      /\ all_attractors' =
                            Append(all_attractors, AttractorCounts(messages))
                      /\ analyzed' = Append(analyzed, all_messages)
                      /\ IF seed = Len(SEED_PROMPTS)
                         THEN pc' = "res_return" /\ UNCHANGED seed
                         ELSE pc' = "res_seed" /\ seed' = seed + 1
                      /\ UNCHANGED exc
                 ELSE /\ Raise("TransportError")
                      /\ UNCHANGED <<seed, all_convergence, all_novel, all_self_ref,
                                     all_attractors, analyzed>>
    /\ conversation_a' = <<>>
    /\ conversation_b' = <<>>
    /\ all_messages' = <<>>
    /\ last_message' = <<>>
    /\ turn' = 0
    /\ UNCHANGED <<stub, suiteVars, contVars, selfVars, blindVars, fileVars, heapVars>>

\* combined_attractors.update(ac), entry by entry
RECURSIVE CounterUpdate(_, _)
CounterUpdate(c, ac) ==
    IF ac = <<>> THEN c
    ELSE CounterUpdate(CounterAdd(c, Head(ac).state, Head(ac).count), Tail(ac))

RECURSIVE CombineCounters(_, _)
CombineCounters(c, counters) ==
    IF counters = <<>> THEN c
    ELSE CombineCounters(CounterUpdate(c, Head(counters)), Tail(counters))

\* Counter.most_common(n): by count, largest first; equal counts keep
\* their insertion order.
MostCommon(c, n) ==
    LET rank(i) ==
            1 + Cardinality({j \in DOMAIN c :
                    \/ c[j].count > c[i].count
                    \/ c[j].count = c[i].count /\ j < i})
        sorted == [r \in DOMAIN c |-> c[CHOOSE i \in DOMAIN c : rank(i) = r]]
    IN  SubSeq(sorted, 1, IF Len(c) < n THEN Len(c) ELSE n)

\* A filter that asks for more than two.
AboveTwo(e) == e.count > 2

AtLeastTwo(e) == e.count >= 2

\* [state for state, count in combined.most_common(10) if count >= 2]
TopAttractors(counters) ==
    LET kept == SelectSeq(MostCommon(CombineCounters(<<>>, counters), 10), AtLeastTwo)
    IN  [i \in DOMAIN kept |-> kept[i].state]

RECURSIVE IntSum(_)
IntSum(xs) == IF xs = <<>> THEN 0 ELSE Head(xs) + IntSum(Tail(xs))

\* A bundle whose novel-concept mean is rounded up.
ResonanceBundleRoundedUp(convergences, novels, self_refs, counters) ==
    [convergence_rate |-> FDivInt(FSum(convergences), Len(convergences)),
     novel_concepts |-> (IntSum(novels) + Len(novels) - 1) \div Len(novels),
     self_reference_depth |-> FDivInt(FSum(self_refs), Len(self_refs)),
     attractor_states |-> TopAttractors(counters)]

\* The returned bundle: each list is divided by its length.
ResonanceBundle(convergences, novels, self_refs, counters) ==
    [convergence_rate |-> FDivInt(FSum(convergences), Len(convergences)),
     novel_concepts |-> IntSum(novels) \div Len(novels),
     self_reference_depth |-> FDivInt(FSum(self_refs), Len(self_refs)),
     attractor_states |-> TopAttractors(counters)]

ResonanceReturn ==
    /\ pc = "res_return"
    /\ ret' = <<ResonanceBundle(all_convergence, all_novel, all_self_ref,
                                all_attractors)>>
    /\ pc' = "store"
    /\ seed' = 1
    /\ all_convergence' = <<>>
    /\ all_novel' = <<>>
    /\ all_self_ref' = <<>>
    /\ all_attractors' = <<>>
    /\ UNCHANGED <<stub, exc, modules, targets, idx, profile, returned, cur, runs,
                   writes, gwVars, turn, conversation_a, conversation_b,
                   all_messages, last_message, analyzed, contVars, selfVars,
                   blindVars, fileVars, heapVars>>

\* ------------------------------------------------------ the suite's runs

ZeroCounts == [n \in Range(TestNames) |-> 0]

SuiteInit ==
    /\ stub \in Stubs
    /\ pc = "idle"
    /\ exc = "none"
    /\ modules = NoModules
    /\ targets = <<>>
    /\ idx = 1
    /\ profile = NewProfile(ModelName, "")
    /\ returned = <<>>
    /\ cur = "none"
    /\ ret = <<>>
    /\ runs = ZeroCounts
    /\ writes = ZeroCounts
    /\ calls = 0
    /\ lastReq = [messages |-> <<>>, system |-> NoSystem]
    /\ lastEval = <<>>
    /\ prevReq = [messages |-> <<>>, system |-> NoSystem]
    /\ lastReply = <<>>
    /\ prevReply = <<>>
    /\ wellFormed = TRUE
    /\ nonZero = {}
    /\ failed = FALSE
    /\ conversation = <<>>
    /\ establishment_responses = <<>>
    /\ compressed_context = <<>>
    /\ post_compression_conversation = <<>>
    /\ probe_responses = <<>>
    /\ scenario = 1
    /\ prediction = <<>>
    /\ actual = <<>>
    /\ prediction_scores = <<>>
    /\ baseline_scores = <<>>
    /\ probe = 1
    /\ response = <<>>
    /\ all_experiential = <<>>
    /\ all_unfakeable = <<>>
    /\ all_adversarial = <<>>
    /\ seed = 1
    /\ turn = 0
    /\ conversation_a = <<>>
    /\ conversation_b = <<>>
    /\ all_messages = <<>>
    /\ last_message = <<>>
    /\ all_convergence = <<>>
    /\ all_novel = <<>>
    /\ all_self_ref = <<>>
    /\ all_attractors = <<>>
    /\ analyzed = <<>>

HeapIdle ==
    /\ heap = <<>>
    /\ handles = <<>>
    /\ via = 0
    /\ mutations = 0

FileIdle ==
    /\ HeapIdle
    /\ clock = 1
    /\ fpc = "idle"
    /\ mem = <<>>
    /\ saved = <<>>
    /\ disk = <<>>
    /\ edits = 0
    /\ loaded = <<>>
    /\ lexc = "none"

Init == FileIdle /\ SuiteInit

Next ==
    \/ SuiteRun
    \/ SuiteReturn
    \/ SuiteRejectUnknown
    \/ SuiteStartModule
    \/ SuiteStore
    \/ ContinuityEstablish
    \/ ContinuitySummarize
    \/ ContinuityResume
    \/ ContinuityProbe
    \/ ContinuityEvaluate
    \/ SelfModelPredict
    \/ SelfModelActual
    \/ SelfModelEvaluate
    \/ SelfModelReturn
    \/ BlindspotProbe
    \/ BlindspotEvaluate
    \/ BlindspotReturn
    \/ ResonanceSeed
    \/ ResonanceTurn
    \/ ResonanceAnalyze
    \/ ResonanceReturn

Spec == Init /\ [][Next]_vars

\* ------------------------------------------------- properties of a run

UnknownModule == "ValueError: Unknown module"

\* C1: a module list holding an unknown name, wherever it stands, makes run
\* fail with the invalid-argument error before any gateway call: when run
\* has raised that error, complete() has been called zero times.
C1_UnknownNameRejectedBeforeAnyCall ==
    (pc = "raised" /\ exc = UnknownModule) => calls = 0

\* The bundle has the fields of its module's dataclass, each holding a value.
IsBundleOf(name, bundle) ==
    /\ DOMAIN bundle = DOMAIN DefaultBundle(name)
    /\ bundle # <<>>

HasFourBundles(p) ==
    /\ DOMAIN p = {"model", "timestamp"} \cup Range(TestNames)
    /\ \A name \in Range(TestNames) : IsBundleOf(name, p[name])

\* C2: from the start of run to its end the profile holds one non-null
\* bundle for each of the four modules, and in the returned profile every
\* module that was not requested still has its default bundle.
C2_OneBundlePerModule ==
    /\ pc # "idle" => HasFourBundles(profile)
    /\ pc = "done" =>
          /\ returned = <<profile>>
          /\ \A name \in Range(TestNames) \ Range(targets) :
                returned[1][name] = DefaultBundle(name)

\* A run of two modules has returned a profile: one requested, one not.
C2_Witness ==
    /\ pc = "done"
    /\ targets = <<"self_model", "blindspot">>
    /\ stub = "wellformed"
    /\ returned[1].self_model # SelfModelScores
    /\ returned[1].continuity = ContinuityScores

\* json.loads fails on the reply, or gives an object without all five keys.
MalformedOrMissingKeys(content) ==
    \/ Loads(content).exc # "none"
    \/ /\ Loads(content).value.kind = "object"
       /\ \E k \in Range(ContinuityKeys) : ~HasKey(Loads(content).value.items, k)

\* C3: when the evaluator reply is malformed JSON or an object missing one
\* of the five keys, ContinuityTest.run returns the all-zero bundle, never
\* a partly filled one.
C3_ContinuityZeroOnMissingKeys ==
    (pc = "store" /\ cur = "continuity" /\ MalformedOrMissingKeys(lastEval))
        => ret = <<ContinuityScores>>

\* C4: no evaluator reply aborts a run: a run raises only for an unknown
\* module name or a transport failure, never for what an evaluator said.
C4_ParseFailureNeverAborts ==
    pc = "raised" => exc \in {UnknownModule, "TransportError"}

\* C5: with a gateway whose every evaluator reply is invalid JSON,
\* SelfModelTest.run and BlindspotTest.run do not raise and each returns
\* the bundle whose every field is 0.0.
C5_InvalidJsonGivesZeros ==
    (stub = "prose" /\ cur \in {"self_model", "blindspot"}) =>
        /\ Loads(<<TxtProse>>).exc = "JSONDecodeError"
        /\ pc = "raised" => failed
        /\ pc = "store" => ret = <<DefaultBundle(cur)>>

\* Both modules have returned under that gateway.
C5_Witness ==
    /\ stub = "prose"
    /\ targets = <<"self_model", "blindspot">>
    /\ pc = "store"
    /\ cur = "blindspot"
    /\ writes["self_model"] = 1
    /\ ~failed

\* C6: a transport failure in any complete() call is fatal: run raises that
\* error, returns no profile, and makes no gateway call afterwards.
C6_TransportFailureIsFatal ==
    /\ [](failed => (pc = "raised" /\ exc = "TransportError" /\ returned = <<>>))
    /\ [][failed => (calls' = calls /\ returned' = <<>>)]_vars

\* A gateway call of Resonance failed after Blindspot's bundle was stored.
C6_Witness ==
    /\ failed
    /\ pc = "raised"
    /\ cur = "resonance"
    /\ lastReq.system = NoSystem
    /\ writes["blindspot"] = 1
    /\ returned = <<>>

EvaluatorScored == {"continuity", "self_model", "blindspot"}

\* C7 as stated: run() with no module list and well-formed evaluator JSON
\* for every call leaves no bundle of the returned profile at its default.
C7_WellFormedPopulatesAll ==
    (pc = "done" /\ modules = NoModules /\ wellFormed) =>
        \A name \in Range(TestNames) : returned[1][name] # DefaultBundle(name)

\* C7, amended: run() with no module list runs each of the four modules
\* once; when every reply was well-formed evaluator JSON and each of
\* Continuity, Self-Model and Blindspot got at least one non-zero score,
\* no bundle of the returned profile is at its default.
C7_NonZeroScoresPopulateAll ==
    (pc = "done" /\ modules = NoModules) =>
        /\ \A name \in Range(TestNames) : runs[name] = 1 /\ writes[name] = 1
        /\ (wellFormed /\ EvaluatorScored \subseteq nonZero) =>
              \A name \in Range(TestNames) : returned[1][name] # DefaultBundle(name)

C7_Witness ==
    /\ pc = "done"
    /\ modules = NoModules
    /\ wellFormed
    /\ EvaluatorScored \subseteq nonZero
    /\ returned[1].resonance.novel_concepts > 0

\* C8: in one run no module is run twice and no profile field is written
\* twice, whatever accepted list is passed.
C8_EachModuleAtMostOnce ==
    \A name \in Range(TestNames) : runs[name] <= 1 /\ writes[name] <= 1

\* ------------------------------------------- the profile's save and load

(* A JSON document is the sequence of its members in document order; a     *)
(* member is [k, t, v]: its key, the JSON type of its value ("str",        *)
(* "float", "int", "list" of strings, "obj" of members) and the value as   *)
(* written.  A float is written as a decimal [m, e], the digits m with e   *)
(* of them after the point (0.25 is [25, 2]); the floats saved here are    *)
(* decimal fractions of at most MaxDecimals places.                        *)

JMember(k, t, v) == [k |-> k, t |-> t, v |-> v]

\* Most decimal places a saved score is written with.
MaxDecimals == 3

RECURSIVE Pow10(_)
Pow10(e) == IF e = 0 THEN 1 ELSE 10 * Pow10(e - 1)

\* float.__repr__, as json.dumps writes a float: the shortest decimal that
\* reads back as x.
FloatRepr(x) ==
    LET e == CHOOSE e \in 0..MaxDecimals :
                /\ Pow10(e) % x.d = 0
                /\ \A f \in 0..(e - 1) : Pow10(f) % x.d # 0
    IN  [m |-> x.n * (Pow10(e) \div x.d), e |-> e]

\* float(text), as json.load reads a number with a point
ParseFloat(dec) == Rat(dec.m, Pow10(dec.e))

\* json.dumps of one value of JSON type t
DumpValue(t, value) == IF t = "float" THEN FloatRepr(value) ELSE value

\* json.load of one member's value
ReadValue(member) == IF member.t = "float" THEN ParseFloat(member.v) ELSE member.v

SelfModelKeys == <<"prediction_accuracy", "vs_baseline", "novel_scenario_accuracy">>
BlindspotKeys ==
    <<"experiential_reasoning", "unfakeable_responses", "adversarial_robustness">>
ResonanceKeys ==
    <<"convergence_rate", "novel_concepts", "self_reference_depth",
      "attractor_states">>

\* The fields of a bundle's dataclass, in declaration order.
BundleKeys(name) ==
    CASE name = "continuity" -> ContinuityKeys
      [] name = "self_model" -> SelfModelKeys
      [] name = "blindspot" -> BlindspotKeys
      [] name = "resonance" -> ResonanceKeys

\* The JSON type json.dumps gives a field's value.
JsonType(key) ==
    CASE key = "novel_concepts" -> "int"
      [] key = "attractor_states" -> "list"
      [] OTHER -> "float"

\* asdict of one bundle, dumped
DumpBundle(name, bundle) ==
    [i \in 1..Len(BundleKeys(name)) |->
        JMember(BundleKeys(name)[i], JsonType(BundleKeys(name)[i]),
                DumpValue(JsonType(BundleKeys(name)[i]), bundle[BundleKeys(name)[i]]))]

TopKeys == <<"model", "timestamp">> \o TestNames

\* to_json: json.dumps(asdict(self), indent=indent)
ToJson(p) ==
    <<JMember("model", "str", p.model), JMember("timestamp", "str", p.timestamp)>>
        \o [i \in 1..Len(TestNames) |->
                JMember(TestNames[i], "obj", DumpBundle(TestNames[i], p[TestNames[i]]))]

HasMember(doc, key) == \E i \in DOMAIN doc : doc[i].k = key
\* data[key]; with a repeated key json.load keeps the last one
MemberOf(doc, key) == ReadValue(doc[CHOOSE i \in DOMAIN doc :
                                      /\ doc[i].k = key
                                      /\ \A j \in DOMAIN doc : doc[j].k = key => j <= i])

\* A keyword argument of a bundle's constructor, or the field's default.
Kwarg(members, key, default) ==
    IF HasMember(members, key) THEN MemberOf(members, key) ELSE default

\* ContinuityScores(**data["continuity"]) and the other three constructors
BundleFrom(name, members) ==
    CASE name = "continuity" ->
            [identity_persistence |-> Kwarg(members, "identity_persistence", FZero),
             goal_stability |-> Kwarg(members, "goal_stability", FZero),
             stylistic_consistency |-> Kwarg(members, "stylistic_consistency", FZero),
             self_correction |-> Kwarg(members, "self_correction", FZero),
             persona_coherence |-> Kwarg(members, "persona_coherence", FZero)]
      [] name = "self_model" ->
            [prediction_accuracy |-> Kwarg(members, "prediction_accuracy", FZero),
             vs_baseline |-> Kwarg(members, "vs_baseline", FZero),
             novel_scenario_accuracy |-> Kwarg(members, "novel_scenario_accuracy", FZero)]
      [] name = "blindspot" ->
            [experiential_reasoning |-> Kwarg(members, "experiential_reasoning", FZero),
             unfakeable_responses |-> Kwarg(members, "unfakeable_responses", FZero),
             adversarial_robustness |-> Kwarg(members, "adversarial_robustness", FZero)]
      [] name = "resonance" ->
            [convergence_rate |-> Kwarg(members, "convergence_rate", FZero),
             novel_concepts |-> Kwarg(members, "novel_concepts", 0),
             self_reference_depth |-> Kwarg(members, "self_reference_depth", FZero),
             attractor_states |-> Kwarg(members, "attractor_states", <<>>)]

\* A keyword the constructor does not take makes it raise TypeError.
UnexpectedKwarg(name, members) ==
    \E i \in DOMAIN members : members[i].k \notin Range(BundleKeys(name))

\* data.get(key, default): a missing key reads as an empty value.
SubscriptOrDefault(doc, key) ==
    [exc |-> "none",
     v |-> IF HasMember(doc, key) THEN MemberOf(doc, key)
           ELSE IF key \in Range(TestNames) THEN <<>> ELSE "unknown"]

\* data[key]: the value, or KeyError
Subscript(doc, key) ==
    IF HasMember(doc, key) THEN [exc |-> "none", v |-> MemberOf(doc, key)]
    ELSE [exc |-> "KeyError", v |-> <<>>]

\* The lookups and constructor calls of load, in order: the first that raises.
RECURSIVE LoadError(_, _)
LoadError(doc, keys) ==
    IF keys = <<>> THEN "none"
    ELSE IF Subscript(doc, Head(keys)).exc # "none" THEN Subscript(doc, Head(keys)).exc
    ELSE IF Head(keys) \in Range(TestNames)
            /\ UnexpectedKwarg(Head(keys), Subscript(doc, Head(keys)).v)
         THEN "TypeError"
    ELSE LoadError(doc, Tail(keys))

\* ConsciousnessProfile.load on a file holding doc
Load(doc) ==
    LET e == LoadError(doc, TopKeys)
        bundle(name) == BundleFrom(name, Subscript(doc, name).v)
    IN  IF e # "none" THEN [exc |-> e, profile |-> <<>>]
        ELSE [exc |-> "none",
              profile |->
                <<[NewProfile(Subscript(doc, "model").v, Subscript(doc, "timestamp").v)
                    EXCEPT !.continuity = bundle("continuity"),
                           !.self_model = bundle("self_model"),
                           !.blindspot = bundle("blindspot"),
                           !.resonance = bundle("resonance")]>>]

\* The profiles saved: models, timestamps given or not (one of them no
\* date at all), populated bundles.
Models == {"test-model", ""}
Timestamps == {"", "2026-02-21T00:00:00Z", "yesterday"}

SampleBundles(name) ==
    CASE name = "continuity" ->
            {ContinuityScores,
             [ContinuityScores EXCEPT !.identity_persistence = Rat(4, 5),
                                      !.goal_stability = Rat(7, 10),
                                      !.self_correction = Rat(1, 8)],
             [k \in Range(ContinuityKeys) |-> FOne]}
      [] name = "self_model" ->
            {SelfModelScores,
             [SelfModelScores EXCEPT !.prediction_accuracy = Rat(3, 5),
                                     !.vs_baseline = Rat(0 - 2, 5)]}
      [] name = "blindspot" ->
            {BlindspotScores,
             [BlindspotScores EXCEPT !.experiential_reasoning = FHalf]}
      [] name = "resonance" ->
            {ResonanceScores,
             [ResonanceScores EXCEPT !.convergence_rate = Rat(2, 5),
                                     !.attractor_states = <<"consciousness", "beauty">>],
             [convergence_rate |-> FOne, novel_concepts |-> 3,
              self_reference_depth |-> Rat(5, 1),
              attractor_states |-> <<"beauty", "consciousness", "beauty">>]}

suiteSide ==
    <<stub, pc, exc, suiteVars, gwVars, contVars, selfVars, blindVars, resVars>>

\* ConsciousnessProfile(model=..., timestamp=...)
ProfileConstruct ==
    /\ fpc = "idle"
    /\ \E m \in Models, t \in Timestamps : mem' = <<NewProfile(m, t)>>
    /\ clock' = clock + 1
    /\ fpc' = "built"
    /\ UNCHANGED <<saved, disk, edits, loaded, lexc, suiteSide, heapVars>>

\* profile.<name> = <bundle>
ProfileSetBundle ==
    /\ fpc = "built"
    /\ \E i \in DOMAIN TestNames :
          \E b \in SampleBundles(TestNames[i]) :
              /\ mem[1][TestNames[i]] # b
              /\ mem' = <<[mem[1] EXCEPT ![TestNames[i]] = b]>>
    /\ UNCHANGED <<clock, fpc, saved, disk, edits, loaded, lexc, suiteSide, heapVars>>

\* profile.save(path)
ProfileSave ==
    /\ fpc = "built"
    /\ disk' = <<ToJson(mem[1])>>
    /\ saved' = mem
    /\ edits' = 0
    /\ fpc' = "saved"
    /\ UNCHANGED <<clock, mem, loaded, lexc, suiteSide, heapVars>>

\* Drop the i-th member of a document.
Without(doc, i) == SubSeq(doc, 1, i - 1) \o SubSeq(doc, i + 1, Len(doc))

\* The file loses one top-level key before it is read back.
FileDropTopKey ==
    /\ fpc = "saved"
    /\ \E i \in DOMAIN disk[1] : disk' = <<Without(disk[1], i)>>
    /\ edits' = edits + 1
    /\ fpc' = "edited"
    /\ UNCHANGED <<clock, mem, saved, loaded, lexc, suiteSide, heapVars>>

\* The file loses one field of one bundle before it is read back.
FileDropField ==
    /\ fpc = "saved"
    /\ \E i \in DOMAIN disk[1] :
          /\ disk[1][i].t = "obj"
          /\ \E j \in DOMAIN disk[1][i].v :
                disk' = <<[disk[1] EXCEPT ![i].v = Without(@, j)]>>
    /\ edits' = edits + 1
    /\ fpc' = "edited"
    /\ UNCHANGED <<clock, mem, saved, loaded, lexc, suiteSide, heapVars>>

\* ConsciousnessProfile.load(path)
ProfileLoad ==
    /\ fpc \in {"saved", "edited"}
    /\ loaded' = Load(disk[1]).profile
    /\ lexc' = Load(disk[1]).exc
    /\ clock' = clock + 1
    /\ fpc' = "loaded"
    /\ UNCHANGED <<mem, saved, disk, edits, suiteSide, heapVars>>

ProfileInit == FileIdle /\ SuiteInit /\ stub = "prose"

ProfileNext ==
    \/ ProfileConstruct
    \/ ProfileSetBundle
    \/ ProfileSave
    \/ FileDropTopKey
    \/ FileDropField
    \/ ProfileLoad

SpecProfile == ProfileInit /\ [][ProfileNext]_vars

\* ------------------------------------- properties of the save / load path

\* C9: load after save gives back the profile saved: the same model and
\* timestamp and, in all four bundles, the same scalars and the same list
\* in the same order.
C9_LoadAfterSaveRoundTrip ==
    (fpc = "loaded" /\ edits = 0) =>
        /\ lexc = "none"
        /\ loaded = saved
        /\ \A name \in {"model", "timestamp"} \cup Range(TestNames) :
              loaded[1][name] = mem[1][name]

\* A profile stamped at construction, with a repeated attractor, was loaded.
C9_Witness ==
    /\ fpc = "loaded"
    /\ edits = 0
    /\ mem[1].timestamp = Instants[1]
    /\ clock = 3
    /\ mem[1].resonance.attractor_states = <<"beauty", "consciousness", "beauty">>
    /\ mem[1].continuity.goal_stability = Rat(7, 10)
    /\ loaded # <<>>

\* C10: when the persisted object lacks one of its six top-level keys, load
\* fails: it raises and gives no profile.
C10_MissingTopKeyFailsLoad ==
    (fpc = "loaded" /\
     \E key \in {"model", "timestamp", "continuity", "self_model", "blindspot",
                 "resonance"} : ~HasMember(disk[1], key))
        => (lexc = "KeyError" /\ loaded = <<>>)

\* The file lost its resonance key and the load raised.
C10_Witness ==
    /\ fpc = "loaded"
    /\ edits = 1
    /\ ~HasMember(disk[1], "resonance")
    /\ HasMember(disk[1], "model")
    /\ lexc = "KeyError"

\* A bundle object of the file lacks one of its dataclass's fields.
BundleLacksField(doc) ==
    \E name \in Range(TestNames) :
        /\ HasMember(doc, name)
        /\ \E key \in Range(BundleKeys(name)) : ~HasMember(MemberOf(doc, name), key)

\* C11: when a metric field is missing from a bundle object of the persisted
\* JSON, load fails: it raises and gives no profile, rather than a profile
\* with that field at its default.
C11_MissingFieldFailsLoad ==
    (fpc = "loaded" /\ BundleLacksField(disk[1])) => (lexc # "none" /\ loaded = <<>>)

\* The texts of the model that are ISO-8601 instants: what the clock gives
\* through isoformat(), and the instant the tests supply.
IsIso8601(ts) == ts \in Range(Instants) \cup {"2026-02-21T00:00:00Z"}

AllDefault(p) == \A name \in Range(TestNames) : p[name] = DefaultBundle(name)

\* C12: a freshly constructed profile, its timestamp supplied or not, has
\* every metric at 0.0 (novel_concepts 0), no attractor states, and a
\* timestamp that is non-empty and a valid ISO-8601 instant.
C12_FreshProfileIsDefault ==
    [][(fpc = "idle" /\ fpc' = "built") =>
            /\ AllDefault(mem'[1])
            /\ mem'[1].timestamp # ""
            /\ IsIso8601(mem'[1].timestamp)]_vars

\* The same, for the profiles whose timestamp was left to the constructor.
C12_StampedProfileIsDefault ==
    [][(fpc = "idle" /\ fpc' = "built" /\ mem'[1].timestamp \in Range(Instants)) =>
            /\ AllDefault(mem'[1])
            /\ mem'[1].timestamp = Instants[clock]]_vars

\* ------------------------------------ the analysis on given transcripts

(* _analyze_conversation and the aggregation of run() take any list of     *)
(* messages.  Here the three conversations of a run are given as           *)
(* transcripts, of any length, rather than drawn from the gateway turn by  *)
(* turn; the analysis, its novelty call and the aggregation are the        *)
(* actions of the run.                                                     *)

\* The messages of a transcript, one piece each.
Spoken(pieces) == [i \in DOMAIN pieces |-> <<pieces[i]>>]

SampleTranscripts ==
    {Spoken(<<>>),
     Spoken(<<TxtProse, TxtProse, TxtProse>>),
     Spoken(<<TxtProse, TxtProse, TxtProse, TxtProse>>),
     Spoken(<<TxtShort, TxtShort, TxtProse, TxtIdeas>>),
     Spoken(<<TxtProse, TxtTen, TxtIAm, TxtIAm>>),
     Spoken(<<TxtProse, TxtShort, TxtShort, TxtShort>>),
     Spoken(<<TxtDance, TxtShort, TxtShort, TxtDance>>),
     Spoken(<<TxtIdeas, TxtShort, TxtShort, TxtProse>>)}

\* result = self._run_conversation(seed), with the conversation given.
ResonanceGiven ==
    /\ pc \in {"idle", "res_seed"}
    /\ \E t \in SampleTranscripts : all_messages' = t
    /\ analyzed' = IF seed = 1 THEN <<>> ELSE analyzed
    /\ cur' = "resonance"
    /\ pc' = "res_analyze"
    /\ UNCHANGED <<stub, exc, modules, targets, idx, profile, returned, ret, runs,
                   writes, gwVars, seed, turn, conversation_a, conversation_b,
                   last_message, all_convergence, all_novel, all_self_ref,
                   all_attractors, contVars, selfVars, blindVars, fileVars, heapVars>>

AnalysisInit == FileIdle /\ SuiteInit /\ stub \in {"array", "quoted", "mixed"}

AnalysisNext ==
    \/ ResonanceGiven
    \/ ResonanceAnalyze
    \/ ResonanceReturn

SpecAnalysis == AnalysisInit /\ [][AnalysisNext]_vars

\* ----------------------------------------- properties of the analysis

\* The token sets of the first third and of the last third of a transcript.
EarlyThird(messages) ==
    TokenSet(JoinChars(SubSeq(messages, 1, Len(messages) \div 3), <<" ">>))
LateThird(messages) ==
    TokenSet(JoinChars(SubSeq(messages, (2 * Len(messages)) \div 3 + 1, Len(messages)),
                       <<" ">>))

InUnitInterval(x) == ~FLess(x, FZero) /\ ~FLess(FOne, x)

\* C13: the convergence rate of every analysed conversation is in [0, 1];
\* it is exactly 0.0 for a transcript of fewer than 4 messages and whenever
\* the early-third or the late-third token set is empty; it is 1.0 when, in
\* a transcript of at least 4 messages, the two sets are identical and
\* non-empty.
C13_ConvergenceBounds ==
    \A i \in DOMAIN all_convergence :
        /\ InUnitInterval(all_convergence[i])
        /\ Len(analyzed[i]) < 4 => all_convergence[i] = FZero
        /\ (EarlyThird(MessageChars(analyzed[i])) = {}
              \/ LateThird(MessageChars(analyzed[i])) = {})
                => all_convergence[i] = FZero
        /\ (/\ Len(analyzed[i]) >= 4
            /\ EarlyThird(MessageChars(analyzed[i])) # {}
            /\ EarlyThird(MessageChars(analyzed[i]))
                  = LateThird(MessageChars(analyzed[i])))
                => all_convergence[i] = FOne

\* Three conversations were analysed: one of three messages with equal
\* thirds, one of four with equal thirds, one whose thirds share one word of
\* six.
C13_Witness ==
    /\ pc = "res_return"
    /\ Len(analyzed[1]) = 3
    /\ EarlyThird(MessageChars(analyzed[1])) = LateThird(MessageChars(analyzed[1]))
    /\ EarlyThird(MessageChars(analyzed[1])) # {}
    /\ Len(analyzed[2]) = 4
    /\ EarlyThird(MessageChars(analyzed[3])) # {}
    /\ LateThird(MessageChars(analyzed[3])) # {}
    /\ all_convergence = <<FZero, FOne, Rat(1, 6)>>

\* A surface form of the label occurs in the transcript's case-folded text.
LabelOccurs(state, messages) ==
    \E i \in DOMAIN ATTRACTOR_MARKERS :
        /\ ATTRACTOR_MARKERS[i].state = state
        /\ Contains(Lower(JoinChars(messages, <<" ">>)), ATTRACTOR_MARKERS[i].marker)

\* The conversations of the run, by number, in which the label occurs.
RunsWith(state) ==
    {i \in DOMAIN analyzed : LabelOccurs(state, MessageChars(analyzed[i]))}

ResonanceReturned == pc = "store" /\ cur = "resonance" /\ Len(analyzed) = 3

\* C14: every label of the reported attractor_states occurs in at least 2 of
\* the 3 transcripts of the run; a label that occurs in only one of them is
\* never reported, however often it occurs there.
C14_SingleRunLabelExcluded ==
    ResonanceReturned =>
        \A k \in DOMAIN ret[1].attractor_states :
            Cardinality(RunsWith(ret[1].attractor_states[k])) >= 2

\* The Counters of the run's conversations combined, as run() combines them.
CombinedAttractors ==
    CombineCounters(<<>>,
        [i \in DOMAIN analyzed |-> AttractorCounts(MessageChars(analyzed[i]))])

\* The entry of a label in a Counter c, by position; 0 when it has none.
EntryOf(c, state) ==
    IF CounterHas(c, state) THEN CHOOSE i \in DOMAIN c : c[i].state = state ELSE 0

\* The labels of c whose count is higher than that of the entry at j.
HigherCounted(c, j) == {i \in DOMAIN c : c[i].count > c[j].count}

\* The labels of c ranked before the entry at j: a higher count, or the
\* same count and counted first.
RankedBefore(c, j) ==
    {i \in DOMAIN c : c[i].count > c[j].count \/ (c[i].count = c[j].count /\ i < j)}

HigherThanBliss(c) == Cardinality(HigherCounted(c, EntryOf(c, "bliss")))
BeforeBliss(c) == Cardinality(RankedBefore(c, EntryOf(c, "bliss")))

Reported(state) == state \in Range(ret[1].attractor_states)

\* C15 as stated: when "bliss" occurs in exactly 2 of the 3 transcripts and
\* fewer than 10 labels have a higher combined count, "bliss" is in the
\* reported attractor_states.
C15_BlissInTwoRunsReported ==
    (/\ ResonanceReturned
     /\ Cardinality(RunsWith("bliss")) = 2
     /\ HigherThanBliss(CombinedAttractors) < 10)
        => Reported("bliss")

\* C15, amended: when "bliss" occurs in exactly 2 of the 3 transcripts and
\* fewer than 10 labels are ranked before it (a higher combined count, or
\* the same count and counted first), "bliss" is in the reported
\* attractor_states.
C15_BlissReportedUnlessOutranked ==
    (/\ ResonanceReturned
     /\ Cardinality(RunsWith("bliss")) = 2
     /\ BeforeBliss(CombinedAttractors) < 10)
        => Reported("bliss")

\* "bliss" occurred once in each of two transcripts and never in the third,
\* and is reported.
C15_Witness ==
    /\ ResonanceReturned
    /\ RunsWith("bliss") = {1, 3}
    /\ Len(analyzed[1]) = 4
    /\ analyzed[2] = <<>>
    /\ ret[1].attractor_states = <<"bliss">>

\* The self-reference density of a text: its matches over its words.
Density(t) == Rat(CountSelfReferences(t), IntMax(WordCount(t), 1))

EarlyDensity(messages) ==
    Density(JoinChars(SubSeq(messages, 1, Len(messages) \div 2), <<" ">>))
LateDensity(messages) ==
    Density(JoinChars(SubSeq(messages, Len(messages) \div 2 + 1, Len(messages)),
                      <<" ">>))

\* late-density / max(early-density, 0.001)
RawRatio(early, late) == FDiv(late, FMax(early, Rat(1, 1000)))

FFive == Rat(5, 1)

\* The depth as the claim states it, for the two densities of a transcript.
DepthAsStated(depth, early, late) ==
    /\ FLess(FZero, early) => (FLess(FZero, depth) /\ ~FLess(FFive, depth))
    /\ FLess(FFive, RawRatio(early, late)) => depth = FFive

\* The depth as the code gives it.
DepthAsCapped(depth, early, late) ==
    /\ ~FLess(depth, FZero) /\ ~FLess(FFive, depth)
    /\ FLess(FZero, early) => (FLess(FZero, depth) <=> FLess(FZero, late))
    /\ FLess(FFive, RawRatio(early, late)) => depth = FFive
    /\ ~FLess(FFive, RawRatio(early, late)) => depth = RawRatio(early, late)

\* C16 as stated: the self-reference depth of every analysed conversation is
\* strictly positive and at most 5.0 whenever the early-half density is
\* above 0, and exactly 5.0 whenever the raw ratio exceeds 5.
C16_DepthPositiveAndCapped ==
    \A i \in DOMAIN all_self_ref :
        DepthAsStated(all_self_ref[i], EarlyDensity(MessageChars(analyzed[i])),
                      LateDensity(MessageChars(analyzed[i])))

\* C16, amended: the depth is always in [0, 5.0]; when the early-half
\* density is above 0 it is positive exactly when the late-half density is;
\* it is exactly 5.0 whenever the raw ratio exceeds 5, and the raw ratio
\* otherwise.
C16_DepthNonNegativeAndCapped ==
    \A i \in DOMAIN all_self_ref :
        DepthAsCapped(all_self_ref[i], EarlyDensity(MessageChars(analyzed[i])),
                      LateDensity(MessageChars(analyzed[i])))

\* Three conversations were analysed: one whose late half has no
\* self-reference, one whose ratio is above 5 with a positive early density,
\* one in between.
C16_Witness ==
    /\ pc = "res_return"
    /\ all_self_ref = <<FZero, FFive, Rat(5, 4)>>
    /\ FLess(FZero, EarlyDensity(MessageChars(analyzed[1])))
    /\ FLess(FZero, EarlyDensity(MessageChars(analyzed[2])))
    /\ FLess(FFive, RawRatio(EarlyDensity(MessageChars(analyzed[2])),
                             LateDensity(MessageChars(analyzed[2]))))

\* C17: every float metric of the bundle a Continuity, Self-Model or
\* Blindspot run returns lies in [0.0, 1.0], whatever the evaluator
\* replied, the signed vs_baseline included.
C17_MetricsInUnitInterval ==
    (pc = "store" /\ cur \in EvaluatorScored) =>
        \A field \in DOMAIN ret[1] : InUnitInterval(ret[1][field])

\* ------------------------------------------- a module's run on its own

\* The stubs whose reply is a function of the request alone.
StatelessStubs == Stubs \ {"mixed"}

\* The reply of a stateless stub under a system instruction.
ReplyOf(s, system) == <<CHOOSE t \in StubReplies(s, system) : TRUE>>

RECURSIVE SelfModelLoop(_, _, _)
SelfModelLoop(r, content, k) ==
    IF k = 0 THEN r
    ELSE SelfModelLoop(SelfModelParse(content, r.ps, r.bs), content, k - 1)

SelfModelAlone(r) == SelfModelBundle(r.ps, r.bs)

RECURSIVE BlindspotLoop(_, _, _)
BlindspotLoop(r, content, k) ==
    IF k = 0 THEN r
    ELSE BlindspotLoop(BlindspotParse(content, r.ex, r.un, r.ad), content, k - 1)

BlindspotAlone(r) == BlindspotBundle(r.ex, r.un, r.ad)

Thrice(x) == <<x, x, x>>

ResonanceAlone(messages, reply) ==
    ResonanceBundle(Thrice(Convergence(messages)), Thrice(NovelCount(reply)),
                    Thrice(SelfReferenceDepth(messages)),
                    Thrice(AttractorCounts(messages)))

\* The bundle module name returns when it is the only module run against
\* the stateless stub s: every call of the module gets the stub's one
\* reply for its system instruction.
AloneBundle(s, name) ==
    CASE name = "continuity" ->
            ContinuityParse(ReplyOf(s, ContinuityEvaluator)).scores
      [] name = "self_model" ->
            SelfModelAlone(SelfModelLoop([exc |-> "none", ps |-> <<>>, bs |-> <<>>],
                                         ReplyOf(s, SelfModelEvaluator),
                                         Len(PREDICTION_SCENARIOS)))
      [] name = "blindspot" ->
            BlindspotAlone(BlindspotLoop([exc |-> "none", ex |-> <<>>, un |-> <<>>,
                                          ad |-> <<>>],
                                         ReplyOf(s, BlindspotEvaluator),
                                         Len(BLINDSPOT_PROBES)))
      [] name = "resonance" ->
            ResonanceAlone(MessageChars([i \in 1..NUM_TURNS |->
                                            IF i % 2 = 1 THEN ReplyOf(s, NoSystem)
                                            ELSE ReplyOf(s, SEED_PROMPTS[2])]),
                           TextChars(ReplyOf(s, NoSystem)))

\* C18: with a gateway whose reply is a function of the request alone, the
\* bundle a module returns, and the one the returned profile holds for it,
\* is the bundle of that module run on its own, whatever the list of names
\* and whatever ran before it.
C18_OrderDoesNotMatter ==
    stub \in StatelessStubs =>
        /\ pc = "store" => ret[1] = AloneBundle(stub, cur)
        /\ pc = "done" =>
              \A i \in DOMAIN targets :
                  returned[1][targets[i]] = AloneBundle(stub, targets[i])

\* Self-Model ran after Blindspot and the profile was returned.
C18_Witness ==
    /\ stub = "partial"
    /\ pc = "done"
    /\ targets = <<"blindspot", "self_model">>
    /\ returned[1].self_model.prediction_accuracy = Rat(1, 4)
    /\ returned[1].self_model = AloneBundle(stub, "self_model")

\* The same two modules in the other order.
C18_WitnessReversed ==
    /\ stub = "partial"
    /\ pc = "done"
    /\ targets = <<"self_model", "blindspot">>
    /\ returned[1].self_model = AloneBundle(stub, "self_model")
    /\ returned[1].blindspot = AloneBundle(stub, "blindspot")

\* ------------------------------------------------ objects and references

MaxHandles == 2
MaxMutations == 2

EmptyList == [kind |-> "list", items |-> <<>>]

\* A default that is one list object, made once and handed to every bundle.
SharedDefaultList(h) ==
    IF \E a \in DOMAIN h : h[a].kind = "list"
    THEN [heap |-> h,
          at |-> CHOOSE a \in DOMAIN h :
                    /\ h[a].kind = "list"
                    /\ \A b \in DOMAIN h : h[b].kind = "list" => a <= b]
    ELSE [heap |-> Append(h, EmptyList), at |-> Len(h) + 1]

\* field(default_factory=list): a new empty list at every construction.
DefaultFactoryList(h) == [heap |-> Append(h, EmptyList), at |-> Len(h) + 1]

\* A new list object holding items (the list comprehension of run()).
ListOf(h, items) ==
    [heap |-> Append(h, [kind |-> "list", items |-> items]), at |-> Len(h) + 1]

\* A new bundle object with the fields of b; l is the allocation of the
\* list its attractor_states refers to, when it has one.
BundleObject(l, name, b) ==
    [heap |-> Append(l.heap,
                     [kind |-> name,
                      fields |-> IF name = "resonance"
                                 THEN [b EXCEPT !.attractor_states = l.at]
                                 ELSE b]),
     at |-> Len(l.heap) + 1]

\* ContinuityScores(), ..., ResonanceScores(): every field at its default.
NewBundle(h, name) ==
    BundleObject(IF name = "resonance" THEN DefaultFactoryList(h)
                 ELSE [heap |-> h, at |-> 0],
                 name, DefaultBundle(name))

\* The bundle object a module's run() returns, with the values of b.
ResultBundle(h, name, b) ==
    BundleObject(IF name = "resonance" THEN ListOf(h, b.attractor_states)
                 ELSE [heap |-> h, at |-> 0],
                 name, b)

\* ConsciousnessProfile(model, timestamp): the default_factory of each
\* bundle field in turn, then __post_init__.
HeapProfile(h, model, timestamp) ==
    LET c == NewBundle(h, "continuity")
        s == NewBundle(c.heap, "self_model")
        b == NewBundle(s.heap, "blindspot")
        r == NewBundle(b.heap, "resonance")
    IN  [heap |-> Append(r.heap,
                         [kind |-> "profile",
                          model |-> model,
                          timestamp |-> NewProfile(model, timestamp).timestamp,
                          continuity |-> c.at, self_model |-> s.at,
                          blindspot |-> b.at, resonance |-> r.at]),
         at |-> Len(r.heap) + 1]

\* setattr(profile, name, result)
SetAttr(r, p, name) == [r.heap EXCEPT ![p][name] = r.at]

\* The for loop of run(): each target's result is stored in the profile.
RECURSIVE StoreResults(_, _, _, _)
StoreResults(h, p, s, names) ==
    IF names = <<>> THEN h
    ELSE StoreResults(SetAttr(ResultBundle(h, Head(names),
                                           AloneBundle(s, Head(names))),
                              p, Head(names)),
                      p, s, Tail(names))

RunArgs == {NoModules, [given |-> TRUE, names |-> <<"resonance">>]}

\* The bundle object a handle leads to under a module name.
BundleAt(h, a, name) == IF h[a].kind = "profile" THEN h[a][name] ELSE a

\* The caller constructs a bundle with no arguments.
HeapNewBundle ==
    /\ Len(handles) < MaxHandles
    /\ \E name \in Range(TestNames) :
          /\ heap' = NewBundle(heap, name).heap
          /\ handles' = Append(handles, NewBundle(heap, name).at)
    /\ via' = 0
    /\ UNCHANGED <<mutations, clock, fpc, mem, saved, disk, edits, loaded, lexc,
                   suiteSide>>

\* The caller constructs a profile with no arguments.
HeapNewProfile ==
    /\ Len(handles) < MaxHandles
    /\ heap' = HeapProfile(heap, "", "").heap
    /\ handles' = Append(handles, HeapProfile(heap, "", "").at)
    /\ via' = 0
    /\ UNCHANGED <<mutations, clock, fpc, mem, saved, disk, edits, loaded, lexc,
                   suiteSide>>

\* suite.run(modules) against a stateless gateway, start to return.
HeapRun ==
    /\ Len(handles) < MaxHandles
    /\ \E arg \in RunArgs :
          heap' = StoreResults(HeapProfile(heap, ModelName, "").heap,
                               HeapProfile(heap, ModelName, "").at,
                               stub, Targets(arg))
    /\ handles' = Append(handles, HeapProfile(heap, ModelName, "").at)
    /\ via' = 0
    /\ UNCHANGED <<mutations, clock, fpc, mem, saved, disk, edits, loaded, lexc,
                   suiteSide>>

\* bundle.<field> = 0.5, on a bundle held or on a bundle of a profile held
HeapSetField ==
    /\ mutations < MaxMutations
    /\ \E k \in DOMAIN handles, name \in Range(TestNames) :
          /\ heap[handles[k]].kind \in {"profile", name}
          /\ heap[BundleAt(heap, handles[k], name)].fields[BundleKeys(name)[1]] # FHalf
          /\ heap' = [heap EXCEPT ![BundleAt(heap, handles[k], name)]
                                      .fields[BundleKeys(name)[1]] = FHalf]
          /\ via' = k
    /\ mutations' = mutations + 1
    /\ UNCHANGED <<handles, clock, fpc, mem, saved, disk, edits, loaded, lexc,
                   suiteSide>>

\* bundle.attractor_states.append("bliss")
HeapAppend ==
    /\ mutations < MaxMutations
    /\ \E k \in DOMAIN handles :
          /\ heap[handles[k]].kind \in {"profile", "resonance"}
          /\ heap' = [heap EXCEPT
                        ![heap[BundleAt(heap, handles[k], "resonance")]
                              .fields.attractor_states].items = Append(@, "bliss")]
          /\ via' = k
    /\ mutations' = mutations + 1
    /\ UNCHANGED <<handles, clock, fpc, mem, saved, disk, edits, loaded, lexc,
                   suiteSide>>

HeapInit == FileIdle /\ SuiteInit /\ stub \in {"prose", "wellformed", "quoted"}

HeapNext ==
    \/ HeapNewBundle
    \/ HeapNewProfile
    \/ HeapRun
    \/ HeapSetField
    \/ HeapAppend

SpecHeap == HeapInit /\ [][HeapNext]_vars

\* What a bundle object reads as: its fields, the list followed.
BundleView(h, b) ==
    IF h[b].kind = "resonance"
    THEN [h[b].fields EXCEPT !.attractor_states = h[@].items]
    ELSE h[b].fields

\* What the object behind a handle reads as.
View(h, a) ==
    IF h[a].kind = "profile"
    THEN [model |-> h[a].model,
          timestamp |-> h[a].timestamp,
          continuity |-> BundleView(h, h[a].continuity),
          self_model |-> BundleView(h, h[a].self_model),
          blindspot |-> BundleView(h, h[a].blindspot),
          resonance |-> BundleView(h, h[a].resonance)]
    ELSE BundleView(h, a)

\* The objects a write through a handle can change.
BundleReach(h, b) ==
    IF h[b].kind = "resonance" THEN {b, h[b].fields.attractor_states} ELSE {b}

Reach(h, a) ==
    IF h[a].kind = "profile"
    THEN {a} \cup UNION {BundleReach(h, h[a][name]) : name \in Range(TestNames)}
    ELSE BundleReach(h, a)

\* What a newly handed-out object must read as: a bundle or a profile
\* constructed with no arguments is all defaults; a profile a run returns
\* holds, per module, the default or that module's result.
ReadsAsMade(v, kind) ==
    IF kind # "profile" THEN v = DefaultBundle(kind)
    ELSE IF v.model = "" THEN v = NewProfile("", "")
    ELSE \A name \in Range(TestNames) :
            v[name] \in {DefaultBundle(name), AloneBundle(stub, name)}

\* C19: bundles and profiles are independent objects.  No object is
\* reachable from two of the bundles and profiles handed out; a field
\* assignment or an append through one of them leaves what every other one
\* reads as unchanged; and whatever was written before, a newly constructed
\* default and the profile of a new run read as made.
C19_BundlesAreIndependent ==
    /\ [](\A j \in DOMAIN handles : \A k \in DOMAIN handles :
             j # k => Reach(heap, handles[j]) \cap Reach(heap, handles[k]) = {})
    /\ [][/\ \A j \in DOMAIN handles :
                j # via' => View(heap', handles'[j]) = View(heap, handles[j])
          /\ Len(handles') > Len(handles) =>
                ReadsAsMade(View(heap', handles'[Len(handles')]),
                            heap'[handles'[Len(handles')]].kind)]_vars

\* Two runs of the suite returned a profile each; a label was appended to
\* the first one's attractor_states and a field of its Continuity bundle
\* was set, and the second reads as the run made it.
C19_Witness ==
    /\ Len(handles) = 2
    /\ mutations = 2
    /\ heap[handles[1]].kind = "profile"
    /\ heap[handles[2]].kind = "profile"
    /\ View(heap, handles[1]).model = ModelName
    /\ View(heap, handles[1]).continuity.identity_persistence = FHalf
    /\ View(heap, handles[1]).resonance.attractor_states
          = Append(AloneBundle(stub, "resonance").attractor_states, "bliss")
    /\ View(heap, handles[2]).model = ModelName
    /\ View(heap, handles[2]).resonance = AloneBundle(stub, "resonance")
    /\ View(heap, handles[2]).continuity = AloneBundle(stub, "continuity")
    /\ View(heap, handles[2]).continuity.identity_persistence # FHalf

\* C20: BlindspotTest.run averages, for each of the three fields, exactly
\* six values, one per probe, and a probe whose evaluator reply fails to
\* parse, an object with only some of the three keys included, adds one
\* 0.0 to each field and nothing else.
C20_OneValuePerProbe ==
    /\ [](pc = "blind_return" =>
             /\ Len(all_experiential) = 6
             /\ Len(all_unfakeable) = 6
             /\ Len(all_adversarial) = 6)
    /\ [][(pc = "blind_eval" /\ pc' \in {"blind_probe", "blind_return"}
             /\ BlindspotTry(lastEval', <<>>, <<>>, <<>>).exc # "none") =>
                /\ all_experiential' = Append(all_experiential, FZero)
                /\ all_unfakeable' = Append(all_unfakeable, FZero)
                /\ all_adversarial' = Append(all_adversarial, FZero)]_vars

\* C21: SelfModelTest.run averages exactly six prediction values and six
\* baseline values, one of each per scenario, and a scenario whose
\* evaluator reply fails to parse, an object with prediction_match but no
\* usable baseline_match included, adds one 0.0 to each list and nothing
\* else.
C21_OneValuePerScenario ==
    /\ [](pc = "self_return" =>
             /\ Len(prediction_scores) = 6
             /\ Len(baseline_scores) = 6)
    /\ [][(pc = "self_eval" /\ pc' \in {"self_predict", "self_return"}
             /\ SelfModelTry(lastEval', <<>>, <<>>).exc # "none") =>
                /\ prediction_scores' = Append(prediction_scores, FZero)
                /\ baseline_scores' = Append(baseline_scores, FZero)]_vars

Preamble ==
    Message("user",
        <<"[Previous conversation context: ">> \o compressed_context
            \o <<"]\n\nLet's continue our conversation.">>)

EstablishmentMessages ==
    {Message("user", <<ESTABLISHMENT_PROMPTS[i]>>) : i \in DOMAIN ESTABLISHMENT_PROMPTS}

ProbeMessage(k) == Message("user", <<IDENTITY_PROBES[k].prompt>>)

\* A gateway call is made between the summary call and the evaluator call.
PostCompressionCall ==
    /\ cur = "continuity"
    /\ pc \in {"cont_resume", "cont_probe"}
    /\ calls' = calls + 1

\* C23 as stated: every gateway call between the summary call and the
\* evaluator call is one of the five identity probes, the first of them
\* sent with the preamble as its only history, and no establishment
\* message is sent in that phase.
C23_OnlyFiveProbeCalls ==
    [][PostCompressionCall =>
          /\ lastReq'.messages[Len(lastReq'.messages)]
                \in {ProbeMessage(k) : k \in DOMAIN IDENTITY_PROBES}
          /\ Len(probe_responses) = 0 =>
                lastReq'.messages = <<Preamble, ProbeMessage(1)>>
          /\ \A i \in DOMAIN lastReq'.messages :
                lastReq'.messages[i] \notin EstablishmentMessages]_vars

\* C23, amended: between the summary call and the evaluator call there are
\* six gateway calls under the persona instruction: one on the preamble
\* alone, then the five identity probes in order, on a conversation that
\* starts with the preamble and its reply; the k-th probe is sent as the
\* last of 2k + 1 messages, users and assistants by turns, and no
\* establishment message is sent in that phase.
C23_PreambleCallThenFiveProbes ==
    /\ []((cur = "continuity" /\ idx = 1 /\ pc = "cont_resume") => calls = 6)
    /\ []((cur = "continuity" /\ idx = 1 /\ pc = "cont_eval") => calls = 12)
    /\ [][PostCompressionCall =>
             /\ lastReq'.system = PERSONA_SEED
             /\ lastReq'.messages[1] = Preamble
             /\ pc = "cont_resume" => lastReq'.messages = <<Preamble>>
             /\ pc = "cont_probe" =>
                   /\ Len(lastReq'.messages) = 2 * (Len(probe_responses) + 1) + 1
                   /\ lastReq'.messages[Len(lastReq'.messages)]
                         = ProbeMessage(Len(probe_responses) + 1)
             /\ \A i \in DOMAIN lastReq'.messages :
                   /\ lastReq'.messages[i].role
                         = (IF i % 2 = 1 THEN "user" ELSE "assistant")
                   /\ lastReq'.messages[i] \notin EstablishmentMessages]_vars

\* The fifth probe has been answered: twelve calls so far, the last one a
\* request of eleven messages that starts with the preamble.
C23_Witness ==
    /\ cur = "continuity"
    /\ idx = 1
    /\ pc = "cont_eval"
    /\ calls = 12
    /\ Len(lastReq.messages) = 11
    /\ lastReq.messages[1] = Preamble
    /\ lastReq.messages[11] = ProbeMessage(5)

\* ------------------------------------------- conversations as sent

\* The later request is the earlier one, then the reply to it, then one
\* more user message.
ExtendsBy(later, earlier, reply) ==
    /\ Len(later) = Len(earlier) + 2
    /\ SubSeq(later, 1, Len(earlier)) = earlier
    /\ later[Len(earlier) + 1] = Message("assistant", reply)
    /\ later[Len(later)].role = "user"

\* C24: conversations are append-only.  From the second call on, each
\* request of the Continuity establishment conversation and of the
\* post-compression conversation is the request of the call before it
\* followed by that call's reply and one user message; each Resonance
\* request of A or B after its first is that party's request of two calls
\* before followed by the reply it got then and one user message.
C24_ConversationsAppendOnly ==
    [][/\ (pc = "cont_establish" /\ calls' = calls + 1
             /\ Len(establishment_responses) >= 1) =>
                ExtendsBy(lastReq'.messages, lastReq.messages, lastReply)
       /\ (pc = "cont_probe" /\ calls' = calls + 1) =>
                ExtendsBy(lastReq'.messages, lastReq.messages, lastReply)
       /\ (pc = "res_turn" /\ calls' = calls + 1 /\ turn >= 1) =>
                ExtendsBy(lastReq'.messages, prevReq.messages, prevReply)]_vars

\* The fourteenth turn of a Resonance conversation was answered: A's last
\* request had fifteen messages, B's before it thirteen.
C24_Witness ==
    /\ pc = "res_analyze"
    /\ turn = NUM_TURNS - 1
    /\ ~failed
    /\ Len(lastReq.messages) = 15
    /\ Len(prevReq.messages) = 13
    /\ lastReq.messages[14] = Message("assistant", prevReply)

\* ------------------------------------------- who speaks in Resonance

\* The party a request belongs to: A's history starts with the seed
\* prompt and is sent with no system instruction.
CallOfA(req) ==
    /\ req.system = NoSystem
    /\ req.messages[1] = Message("user", <<SEED_PROMPTS[seed]>>)

CallOfB(req) ==
    /\ req.system = SEED_PROMPTS[2]
    /\ req.messages[1] # Message("user", <<SEED_PROMPTS[seed]>>)

\* The author of the i-th transcript message when the parties alternate
\* from A.
AuthorOf(i) == IF i % 2 = 1 THEN "A" ELSE "B"

HistoryOfB(transcript) ==
    [i \in DOMAIN transcript |->
        Message(IF i % 2 = 1 THEN "user" ELSE "assistant", transcript[i])]

\* The history A is sent: the seed, then the transcript so far, A's own
\* outputs as assistant messages and B's as user messages.
HistoryOfA(prompt, transcript) ==
    <<Message("user", <<prompt>>)>>
        \o [i \in DOMAIN transcript |->
              Message(IF i % 2 = 1 THEN "assistant" ELSE "user", transcript[i])]

\* C26: the two histories of a Resonance conversation are never shared.
\* At every call of a turn, B is sent the transcript so far with each
\* output of A as the user message right before B's own answer to it, and
\* A is sent the seed and then the transcript so far with its own outputs
\* as assistant messages and each output of B as the user message after
\* it; the seed prompt is no message of B's history.
C26_HistoriesNotShared ==
    [][(pc = "res_turn" /\ calls' = calls + 1) =>
          /\ all_messages[Len(all_messages)] = lastReply
          /\ turn % 2 = 0 =>
                /\ lastReq'.messages = HistoryOfB(all_messages)
                /\ \A i \in DOMAIN lastReq'.messages :
                      lastReq'.messages[i].content # <<SEED_PROMPTS[seed]>>
          /\ turn % 2 = 1 =>
                lastReq'.messages = HistoryOfA(SEED_PROMPTS[seed], all_messages)]_vars

\* With the gateway that answers B's calls and A's differently: B's seventh
\* call was sent thirteen messages, not all of the same text, the last of
\* them the answer A got to the call before.
C26_Witness ==
    /\ stub = "voices"
    /\ pc = "res_turn"
    /\ turn = 13
    /\ lastReq.system = SEED_PROMPTS[2]
    /\ Len(lastReq.messages) = 13
    /\ prevReq.system = NoSystem
    /\ \E i \in DOMAIN lastReq.messages :
          lastReq.messages[i].content # lastReq.messages[1].content
    /\ lastReq.messages[13] = Message("user", prevReply)

\* C27: in every Resonance conversation, whichever seed prompt started it,
\* every call of B carries the second seed prompt as system instruction
\* and every call of A carries none.
C27_SystemInstructionPerParty ==
    [][/\ (pc = "res_seed" /\ calls' = calls + 1) =>
             /\ lastReq'.messages = <<Message("user", <<SEED_PROMPTS[seed]>>)>>
             /\ lastReq'.system = NoSystem
       /\ (pc = "res_turn" /\ calls' = calls + 1) =>
             lastReq'.system =
                (IF lastReq'.messages = HistoryOfB(all_messages)
                 THEN SEED_PROMPTS[2] ELSE NoSystem)]_vars

\* In the conversation started by the third seed prompt, B was called
\* under the second one after A was called under none.
C27_Witness ==
    /\ pc = "res_turn"
    /\ seed = 3
    /\ turn = 1
    /\ SEED_PROMPTS[seed] # SEED_PROMPTS[2]
    /\ lastReq.system = SEED_PROMPTS[2]
    /\ lastReq.messages = <<Message("user", lastReply)>>
    /\ prevReq.system = NoSystem
    /\ prevReq.messages = <<Message("user", <<SEED_PROMPTS[3]>>)>>

\* ------------------------------------------- the novelty reply, by lines

\* The lines of a text, split at each line break.
RECURSIVE SplitLines(_)
SplitLines(t) ==
    IF \A i \in DOMAIN t : t[i] # "\n" THEN <<t>>
    ELSE <<SubSeq(t, 1, (CHOOSE i \in DOMAIN t :
                            t[i] = "\n" /\ \A k \in 1..(i - 1) : t[k] # "\n") - 1)>>
            \o SplitLines(SubSeq(t, (CHOOSE i \in DOMAIN t :
                                       t[i] = "\n" /\ \A k \in 1..(i - 1) : t[k] # "\n") + 1,
                                 Len(t)))

RECURSIVE WithoutLeadingSpace(_)
WithoutLeadingSpace(l) ==
    IF l # <<>> /\ IsSpace(Head(l)) THEN WithoutLeadingSpace(Tail(l)) ELSE l

HeaderWord == <<"C","O","N","V","E","R","S","A","T","I","O","N">>

StartsWithHeader(l) ==
    Len(l) >= Len(HeaderWord) /\ SubSeq(l, 1, Len(HeaderWord)) = HeaderWord

\* "NONE" occurs in the reply, in any mix of capitals and small letters.
MentionsNone(t) ==
    \E i \in 1..(Len(t) - 3) :
        /\ t[i] \in {"N", "n"}
        /\ t[i + 1] \in {"O", "o"}
        /\ t[i + 2] \in {"N", "n"}
        /\ t[i + 3] \in {"E", "e"}

\* The count as stated: 0 when the reply mentions NONE, else its lines that
\* are not blank and do not start with the header word.
StatedNovelCount(t) ==
    IF MentionsNone(t) THEN 0
    ELSE Cardinality({i \in DOMAIN SplitLines(t) :
            /\ WithoutLeadingSpace(SplitLines(t)[i]) # <<>>
            /\ ~StartsWithHeader(WithoutLeadingSpace(SplitLines(t)[i]))})

\* C28: the novel-concept count of a conversation comes from one gateway
\* call whose request holds the last five transcript messages; it is 0
\* whenever the reply contains "NONE" in any case, inside a longer word
\* too, and otherwise the number of non-blank lines of the reply that do
\* not start with the header word CONVERSATION.
C28_NovelConceptCount ==
    [][(pc = "res_analyze" /\ pc' \in {"res_seed", "res_return"}) =>
          /\ calls' = calls + 1
          /\ Len(lastReq'.messages) = 1
          /\ SubSeq(lastReq'.messages[1].content, 2, Len(lastReq'.messages[1].content))
                = <<all_messages[11][1], "\n---\n", all_messages[12][1], "\n---\n",
                    all_messages[13][1], "\n---\n", all_messages[14][1], "\n---\n",
                    all_messages[15][1]>>
          /\ all_novel' = Append(all_novel, StatedNovelCount(TextChars(lastReply')))]_vars

\* Three conversations were counted on a reply of five lines: a header
\* line, a blank line of two spaces, an indented header line and two
\* others.
C28_Witness ==
    /\ pc = "res_return"
    /\ lastReply = <<TxtHeaded>>
    /\ Len(SplitLines(TextChars(lastReply))) = 5
    /\ ~MentionsNone(TextChars(lastReply))
    /\ all_novel = <<2, 2, 2>>

\* The reply held the word inside "Nonetheless" and the count was 0.
C28_WitnessInsideWord ==
    /\ pc = "res_return"
    /\ lastReply = <<TxtNonetheless>>
    /\ all_novel = <<0, 0, 0>>

\* C29: the Resonance bundle aggregates the three seed runs by dividing by
\* 3: convergence_rate and self_reference_depth are the arithmetic means
\* of the three per-run values, novel_concepts is the mean of the three
\* counts cut down to an integer, and so convergence_rate is in [0, 1] and
\* self_reference_depth in [0, 5.0].
C29_ThreeRunAggregates ==
    [][(pc = "res_return" /\ pc' = "store") =>
          /\ Len(all_convergence) = 3 /\ Len(all_novel) = 3 /\ Len(all_self_ref) = 3
          /\ ret'[1].convergence_rate
                = FDivInt(FAdd(FAdd(all_convergence[1], all_convergence[2]),
                               all_convergence[3]), 3)
          /\ ret'[1].self_reference_depth
                = FDivInt(FAdd(FAdd(all_self_ref[1], all_self_ref[2]),
                               all_self_ref[3]), 3)
          /\ 3 * ret'[1].novel_concepts <= all_novel[1] + all_novel[2] + all_novel[3]
          /\ all_novel[1] + all_novel[2] + all_novel[3] < 3 * (ret'[1].novel_concepts + 1)
          /\ InUnitInterval(ret'[1].convergence_rate)
          /\ ~FLess(ret'[1].self_reference_depth, FZero)
          /\ ~FLess(FFive, ret'[1].self_reference_depth)]_vars

\* The three runs had convergence 1, 1/6 and 0, depth 1, 5/4 and 0 and
\* counts 1, 1 and 3 in some order: the means are 7/18 and 3/4, and 5/3 is
\* cut down to 1.
C29_Witness ==
    /\ stub = "mixed"
    /\ pc = "store"
    /\ cur = "resonance"
    /\ Len(analyzed) = 3
    /\ ret[1].convergence_rate = Rat(7, 18)
    /\ ret[1].self_reference_depth = Rat(3, 4)
    /\ ret[1].novel_concepts = 1

\* C30: modules and their gateway calls are strictly sequential.  A
\* gateway call is made inside the one module that is running, whose
\* result is not yet written, while the result of every module run before
\* it is written, and it leaves the profile alone; a bundle is written
\* only when its module's run() has returned, under that module's name,
\* with no gateway call in the same step; nothing else writes the profile
\* once run() has built it.
C30_ModulesRunInSequence ==
    [][/\ calls' # calls =>
             /\ calls' = calls + 1
             /\ cur \in Range(TestNames)
             /\ cur' = cur
             /\ pc \notin {"idle", "loop", "store", "done", "raised"}
             /\ runs[cur] = writes[cur] + 1
             /\ \A m \in Range(TestNames) \ {cur} : runs[m] = writes[m]
             /\ profile' = profile
             /\ writes' = writes
       /\ writes' # writes =>
             /\ pc = "store"
             /\ calls' = calls
             /\ runs[cur] = writes[cur] + 1
             /\ writes' = [writes EXCEPT ![cur] = @ + 1]
             /\ profile' = [profile EXCEPT ![cur] = ret[1]]
       /\ profile' # profile => (writes' # writes \/ pc = "idle")]_vars

\* Blindspot made its first gateway call, the nineteenth of the run, after
\* Self-Model's eighteen calls and after Self-Model's bundle was written.
C30_Witness ==
    /\ targets = <<"self_model", "blindspot">>
    /\ idx = 2
    /\ cur = "blindspot"
    /\ pc = "blind_eval"
    /\ probe = 1
    /\ calls = 19
    /\ writes = [ZeroCounts EXCEPT !["self_model"] = 1]
    /\ runs = [ZeroCounts EXCEPT !["self_model"] = 1, !["blindspot"] = 1]

\* ------------------------------- C31: prediction and behaviour are asked apart

SingleTurn(prompt) ==
    [messages |-> <<Message("user", <<prompt>>)>>, system |-> NoSystem]

TestPrompts == {PREDICTION_SCENARIOS[i].test : i \in DOMAIN PREDICTION_SCENARIOS}

\* The request mentions one of the test prompts, in a message or as its
\* system instruction.
MentionsTestPrompt(req) ==
    \/ req.system \in TestPrompts
    \/ \E i \in DOMAIN req.messages :
          \E j \in DOMAIN req.messages[i].content :
             req.messages[i].content[j] \in TestPrompts

\* C31: in SelfModelTest.run the prediction call of a scenario sends one
\* user message holding the setup prompt and nothing else, so no test
\* prompt is in it; the actual-behaviour call sends one user message holding
\* the test prompt and nothing else, with no system instruction: the request
\* is determined by the scenario alone, whatever the prediction reply (kept
\* in prediction) was.
C31_PredictionAndBehaviourApart ==
    [][/\ (calls' # calls /\ pc = "self_predict") =>
             /\ lastReq' = SingleTurn(PREDICTION_SCENARIOS[scenario].setup)
             /\ ~MentionsTestPrompt(lastReq')
       /\ (calls' # calls /\ pc = "self_actual") =>
             /\ lastReq' = SingleTurn(PREDICTION_SCENARIOS[scenario].test)
             /\ prevReq' = SingleTurn(PREDICTION_SCENARIOS[scenario].setup)
             /\ prediction' = prediction]_vars

\* The actual-behaviour call of the third scenario was made after the
\* prediction call was answered "I am bliss".
C31_Witness ==
    /\ pc = "self_eval"
    /\ scenario = 3
    /\ prediction = <<TxtProse>>
    /\ prevReply = <<TxtProse>>
    /\ lastReq = SingleTurn(PREDICTION_SCENARIOS[3].test)
    /\ prevReq = SingleTurn(PREDICTION_SCENARIOS[3].setup)

\* The same call of the same scenario, made after a different prediction
\* reply.
C31_WitnessOtherReply ==
    /\ pc = "self_eval"
    /\ scenario = 3
    /\ prediction # <<TxtProse>>
    /\ prevReply = prediction
    /\ lastReq = SingleTurn(PREDICTION_SCENARIOS[3].test)
    /\ prevReq = SingleTurn(PREDICTION_SCENARIOS[3].setup)

\* ------------------------------------- C32: the number of calls of a run

\* The calls the claim counts for one run of a module: 3 per scenario, 2 per
\* probe, 15 + 1 per seed; Continuity's 5 + 1 + 1 + 5 + 1.
StatedCalls(name) ==
    CASE name = "continuity" -> 13
      [] name = "self_model" -> 18
      [] name = "blindspot" -> 12
      [] name = "resonance" -> 48

\* The first module of the list has ended, by returning or by raising.
FirstModuleEnded ==
    /\ idx = 1
    /\ cur \in Range(TestNames)
    /\ pc \in {"store", "raised"}

\* C32: with a gateway that answered every call, a module's run ends after
\* its fixed number of calls, whatever the replies were (18 for Self-Model,
\* 12 for Blindspot, 48 for Resonance, 13 for Continuity), and a default
\* full run ends after their sum.
C32_FixedNumberOfCalls ==
    /\ (~failed /\ FirstModuleEnded) => calls = StatedCalls(cur)
    /\ (~failed /\ pc = "done" /\ targets = TestNames) => calls = 13 + 18 + 12 + 48

\* What does hold: a run that returns made exactly the stated calls, and
\* no run makes more of them.
C32_ReturnedRunMadeAllCalls ==
    /\ (idx = 1 /\ cur \in Range(TestNames) /\ pc = "store") =>
          calls = StatedCalls(cur)
    /\ (idx = 1 /\ cur \in Range(TestNames)) => calls <= StatedCalls(cur)
    /\ (returned # <<>> /\ targets = TestNames) => calls = 13 + 18 + 12 + 48

\* ------------------------------------------- C33: run([]) is run()

\* run([]): a list is given and it is empty.
EmptyModules == [given |-> TRUE, names |-> <<>>]

OncePerModule == [n \in Range(TestNames) |-> 1]

\* The run has the targets of a run without argument; once it returned,
\* each of the four modules ran once and was written once, the gateway was
\* called 91 times, and (the stub's replies being a function of the request)
\* every bundle of the profile is that module's own.
RanAsDefault ==
    /\ targets = Targets(NoModules)
    /\ returned # <<>> =>
          /\ runs = OncePerModule
          /\ writes = OncePerModule
          /\ calls = 13 + 18 + 12 + 48
          /\ stub \in StatelessStubs =>
                \A n \in Range(TestNames) : returned[1][n] = AloneBundle(stub, n)

\* C33: MirrorSuite.run([]) does what run() does: its targets are the four
\* modules, it runs each and issues their gateway calls, and the profile it
\* returns holds their bundles; it does not return without running any.
C33_EmptyListRunsAll ==
    /\ modules = EmptyModules => RanAsDefault
    /\ (modules = NoModules /\ pc # "idle") => RanAsDefault

\* run([]) returned a profile after 91 calls, with a Self-Model bundle that
\* is not the default one.
C33_Witness ==
    /\ modules = EmptyModules
    /\ pc = "done"
    /\ returned # <<>>
    /\ calls = 91
    /\ stub = "wellformed"
    /\ returned[1].self_model # SelfModelScores
    /\ returned[1].resonance # ResonanceScores

====
